---- MODULE Spec2Model ----
(***************************************************************************)
(* Model of the Spark log analyzer of Fabric/SparkHistoryLogs              *)
(* (analyzeLogs.py): hostname normalisation, the trust classifier, the     *)
(* per-file pattern scan and the per-session aggregation views.            *)
(*                                                                         *)
(* Python strings are TLA+ strings; an operation that looks inside a       *)
(* string works on its sequence of one-character strings (Chars) and       *)
(* converts back with Str.                                                 *)
(***************************************************************************)
EXTENDS Integers, Sequences, FiniteSets, TLC

VARIABLES
    trusted_domains,    \* SparkLogAnalyzer.trusted_domains (list of str)
    session_results,    \* SparkLogAnalyzer.session_results (list of session records)
    consolidated_file_path, \* self.consolidated_file_path (None: not given)
    compiled_patterns,  \* the three compiled pattern lists, as the patterns' texts
    call,               \* the call in progress on the analyzer and what it returns
    status,             \* "running", or "exited" once sys.exit(1) was called
    output              \* what is at LivyAPIConnector.consolidated_file on disk

vars == <<trusted_domains, session_results, consolidated_file_path, compiled_patterns, call,
          status, output>>

(***************************************************************************)
(* Strings                                                                 *)
(***************************************************************************)

\* None of Python
None == "<None>"

\* s[i], 1-based
At(s, i) == SubSeq(s, i, i)

\* the slice of s from position i to position j, both included (1-based)
slice(s, i, j) == IF i > j THEN "" ELSE SubSeq(s, i, j)

\* the set of characters of a string
CharSet(s) == {At(s, i) : i \in 1..Len(s)}

UPPERCASE == "ABCDEFGHIJKLMNOPQRSTUVWXYZ"
LOWERCASE == "abcdefghijklmnopqrstuvwxyz"
DIGITS == "0123456789"
\* \s of the re module, within the characters the model uses
WHITESPACE == " \t\n\r\f"

LowerCh == [c \in CharSet(UPPERCASE) |->
               LET i == CHOOSE j \in 1..Len(UPPERCASE) : At(UPPERCASE, j) = c
               IN  At(LOWERCASE, i)]

\* str.lower() on one character
lowerc(c) == IF c \in DOMAIN LowerCh THEN LowerCh[c] ELSE c

RECURSIVE lower(_)
\* str.lower()
lower(s) ==
    IF Len(s) = 0 THEN ""
    ELSE IF Len(s) = 1 THEN lowerc(s)
    ELSE LET h == Len(s) \div 2
         IN  lower(slice(s, 1, h)) \o lower(slice(s, h + 1, Len(s)))

MinOf(S) == CHOOSE i \in S : \A j \in S : i <= j
MaxOf(S) == CHOOSE i \in S : \A j \in S : i >= j

\* the positions (1-based) at which sub occurs in s
occurrences(s, sub) ==
    {i \in 1..(Len(s) - Len(sub) + 1) : slice(s, i, i + Len(sub) - 1) = sub}

\* str.find(sub), 1-based; 0 when sub does not occur
find(s, sub) ==
    LET at == occurrences(s, sub) IN IF at = {} THEN 0 ELSE MinOf(at)

\* str.rfind(sub), 1-based; 0 when sub does not occur
rfind(s, sub) ==
    LET at == occurrences(s, sub) IN IF at = {} THEN 0 ELSE MaxOf(at)

\* sub in s
contains(s, sub) == occurrences(s, sub) # {}

\* s.startswith(p)
startswith(s, p) ==
    Len(p) <= Len(s) /\ slice(s, 1, Len(p)) = p

\* s.endswith(p)
endswith(s, p) ==
    Len(p) <= Len(s) /\ slice(s, Len(s) - Len(p) + 1, Len(s)) = p

\* s.count(c) for a single character c
count(s, c) == Cardinality(occurrences(s, c))

\* s.strip(chars)
strip(s, chars) ==
    LET keep == {i \in 1..Len(s) : At(s, i) \notin CharSet(chars)}
    IN  IF keep = {} THEN "" ELSE slice(s, MinOf(keep), MaxOf(keep))

\* s.split(sep)[0]
splitfirst(s, sep) ==
    LET i == find(s, sep)
    IN  IF i = 0 THEN s ELSE slice(s, 1, i - 1)

\* s.split(sep)[-1]
splitlast(s, sep) ==
    LET i == rfind(s, sep)
    IN  IF i = 0 THEN s ELSE slice(s, i + Len(sep), Len(s))

RECURSIVE remove(_, _)
\* s.replace(old, ""): occurrences are removed left to right, without overlap
remove(s, old) ==
    LET i == find(s, old)
    IN  IF i = 0 THEN s
        ELSE slice(s, 1, i - 1) \o remove(slice(s, i + Len(old), Len(s)), old)

(***************************************************************************)
(* Regular expressions (module re), for the pattern shapes of the three    *)
(* catalogs: an alternation of sequences of items, an item being a literal *)
(* string or a character class repeated ?, + or *?, possibly a capturing   *)
(* group.  Matching gives the result of re's backtracking search: leftmost *)
(* start, alternatives in order, a greedy item as long and a lazy item as  *)
(* short as lets the rest of the pattern match.                            *)
(* All catalogs are compiled with re.IGNORECASE.                           *)
(***************************************************************************)

\* a literal string, matched case-insensitively
Lit(s) == <<[kind |-> "lit", lit |-> lower(s)]>>

\* characters of cs (not of cs when neg), lo..hi times (hi = -1: any number),
\* as group grp (0: not a group)
Item(cs, neg, lo, hi, lazy, grp) ==
    <<[kind |-> "cls", cs |-> cs, neg |-> neg, lo |-> lo, hi |-> hi,
       lazy |-> lazy, grp |-> grp]>>

\* c? for a literal character c
Opt(c) == Item({lowerc(c)}, FALSE, 0, 1, FALSE, 0)

\* [...]+ or [^...]+, as group grp
Plus(s, neg, grp) == Item(CharSet(s), neg, 1, -1, FALSE, grp)

\* [...]{n}
Exactly(s, n) == Item(CharSet(s), FALSE, n, n, FALSE, 0)

\* (\d+)? as group grp: the group is None when it does not take part
OptDigits(grp) == Item(CharSet(DIGITS), FALSE, 0, -1, FALSE, grp)

\* .*? (any character but a newline, as few as possible)
LazyAny == Item({"\n"}, TRUE, 0, -1, TRUE, 0)

ALNUM == LOWERCASE \o DIGITS

ItemOK(it, ch) == (lowerc(ch) \in it.cs) # it.neg

\* how many characters from pos on a class item can take at most
RunLen(it, line, pos) ==
    LET stop == {j \in pos..Len(line) : ~ItemOK(it, At(line, j))}
        run == IF stop = {} THEN Len(line) - pos + 1 ELSE MinOf(stop) - pos
    IN  IF it.hi = -1 \/ run <= it.hi THEN run ELSE it.hi

NoMatch == [ok |-> FALSE, g |-> <<None, None>>]
Matched == [ok |-> TRUE, g |-> <<None, None>>]

RECURSIVE MatchHere(_, _, _, _)
\* match items k.. of a sequence at position pos of line
MatchHere(items, k, line, pos) ==
    IF k > Len(items) THEN Matched
    ELSE LET it == items[k] IN
         IF it.kind = "lit"
         THEN IF pos + Len(it.lit) - 1 <= Len(line)
                   /\ lower(slice(line, pos, pos + Len(it.lit) - 1)) = it.lit
              THEN MatchHere(items, k + 1, line, pos + Len(it.lit))
              ELSE NoMatch
         ELSE LET mx == RunLen(it, line, pos)
                  rest == [n \in it.lo..mx |-> MatchHere(items, k + 1, line, pos + n)]
                  good == {n \in it.lo..mx : rest[n].ok}
              IN  IF good = {} THEN NoMatch
                  ELSE LET n == IF it.lazy THEN MinOf(good) ELSE MaxOf(good)
                       IN  IF it.grp > 0 /\ n > 0
                           THEN [rest[n] EXCEPT !.g[it.grp] = slice(line, pos, pos + n - 1)]
                           ELSE rest[n]

RECURSIVE MatchAlts(_, _, _, _)
\* the first alternative, in order, that matches at pos
MatchAlts(alts, a, line, pos) ==
    IF a > Len(alts) THEN NoMatch
    ELSE LET r == MatchHere(alts[a], 1, line, pos)
         IN  IF r.ok THEN r ELSE MatchAlts(alts, a + 1, line, pos)

\* the match at the leftmost position at which the pattern matches
SearchFrom(alts, line) ==
    LET at == [p \in 1..(Len(line) + 1) |-> MatchAlts(alts, 1, line, p)]
        starts == {p \in 1..(Len(line) + 1) : at[p].ok}
    IN  IF starts = {} THEN NoMatch ELSE at[MinOf(starts)]

\* pattern.search(line): the leftmost match, or NoMatch
search(pattern, line) == SearchFrom(pattern.alts, line)

\* re.compile(text, re.IGNORECASE) of a pattern with the given number of groups
Pattern(text, groups, alts) == [pattern |-> text, groups |-> groups, alts |-> alts]

\* host:port tail shared by the free-text patterns: ([^\s:]+):(\d+)
HostPort == Plus(WHITESPACE \o ":", TRUE, 1) \o Lit(":") \o Plus(DIGITS, FALSE, 2)

\* scheme://([^\s:]+):?(\d+)? for the URL patterns
UrlHostPort == Lit("://") \o Plus(WHITESPACE \o ":", TRUE, 1) \o Opt(":") \o OptDigits(2)

\* [:\s]+
ColonOrSpace == Plus(WHITESPACE \o ":", FALSE, 0)

CONNECTION_PATTERNS == <<
    Pattern("jdbc:.*?://([^:]+):(\\d+)", 2,
        <<Lit("jdbc:") \o LazyAny \o Lit("://") \o Plus(":", TRUE, 1) \o Lit(":")
            \o Plus(DIGITS, FALSE, 2)>>),
    Pattern("https?://([^\\s:]+):?(\\d+)?", 2,
        <<Lit("http") \o Opt("s") \o UrlHostPort>>),
    Pattern("connecting to ([^\\s]+):(\\d+)", 2,
        <<Lit("connecting to ") \o Plus(WHITESPACE, TRUE, 1) \o Lit(":")
            \o Plus(DIGITS, FALSE, 2)>>),
    Pattern("established connection to ([^\\s]+):(\\d+)", 2,
        <<Lit("established connection to ") \o Plus(WHITESPACE, TRUE, 1) \o Lit(":")
            \o Plus(DIGITS, FALSE, 2)>>),
    Pattern("remote address[:\\s]+([^\\s:]+):(\\d+)", 2,
        <<Lit("remote address") \o ColonOrSpace \o HostPort>>),
    Pattern("destination[:\\s]+([^\\s:]+):(\\d+)", 2,
        <<Lit("destination") \o ColonOrSpace \o HostPort>>),
    Pattern("target[:\\s]+([^\\s:]+):(\\d+)", 2,
        <<Lit("target") \o ColonOrSpace \o HostPort>>),
    Pattern("s3[a]?://([^\\s/]+)", 1,
        <<Lit("s3") \o Opt("a") \o Lit("://") \o Plus(WHITESPACE \o "/", TRUE, 1)>>),
    Pattern("wasbs?://([^\\s@]+)@([^\\s.]+)", 2,
        <<Lit("wasb") \o Opt("s") \o Lit("://") \o Plus(WHITESPACE \o "@", TRUE, 1)
            \o Lit("@") \o Plus(WHITESPACE \o ".", TRUE, 2)>>),
    Pattern("gs://([^\\s/]+)", 1,
        <<Lit("gs://") \o Plus(WHITESPACE \o "/", TRUE, 1)>>),
    Pattern("mongodb://([^\\s:]+):?(\\d+)?", 2,
        <<Lit("mongodb") \o UrlHostPort>>),
    Pattern("kafka[:\\s]+([^\\s:]+):(\\d+)", 2,
        <<Lit("kafka") \o ColonOrSpace \o HostPort>>),
    Pattern("ftp://([^\\s:]+):?(\\d+)?", 2,
        <<Lit("ftp") \o UrlHostPort>>),
    Pattern("sftp://([^\\s:]+):?(\\d+)?", 2,
        <<Lit("sftp") \o UrlHostPort>>),
    Pattern("([a-zA-Z0-9]+)\\.dfs\\.core\\.windows\\.net", 1,
        <<Plus(ALNUM, FALSE, 1) \o Lit(".dfs.core.windows.net")>>),
    Pattern("([a-zA-Z0-9]+)\\.blob\\.core\\.windows\\.net", 1,
        <<Plus(ALNUM, FALSE, 1) \o Lit(".blob.core.windows.net")>>),
    Pattern("([a-zA-Z0-9]+)\\.table\\.core\\.windows\\.net", 1,
        <<Plus(ALNUM, FALSE, 1) \o Lit(".table.core.windows.net")>>),
    Pattern("([a-zA-Z0-9]+)\\.queue\\.core\\.windows\\.net", 1,
        <<Plus(ALNUM, FALSE, 1) \o Lit(".queue.core.windows.net")>>),
    Pattern("abfss?://[^@]+@([^\\s.]+)\\.dfs\\.core\\.windows\\.net", 1,
        <<Lit("abfs") \o Opt("s") \o Lit("://") \o Plus("@", TRUE, 0) \o Lit("@")
            \o Plus(WHITESPACE \o ".", TRUE, 1) \o Lit(".dfs.core.windows.net")>>)
>>

PIP_PATTERNS == <<
    Pattern("pip install ([^\\s]+)", 1,
        <<Lit("pip install ") \o Plus(WHITESPACE, TRUE, 1)>>),
    Pattern("pip3 install ([^\\s]+)", 1,
        <<Lit("pip3 install ") \o Plus(WHITESPACE, TRUE, 1)>>),
    Pattern("python -m pip install ([^\\s]+)", 1,
        <<Lit("python -m pip install ") \o Plus(WHITESPACE, TRUE, 1)>>),
    Pattern("python3 -m pip install ([^\\s]+)", 1,
        <<Lit("python3 -m pip install ") \o Plus(WHITESPACE, TRUE, 1)>>),
    Pattern("Installing collected packages: ([^\\n]+)", 1,
        <<Lit("Installing collected packages: ") \o Plus("\n", TRUE, 1)>>),
    Pattern("Successfully installed ([^\\n]+)", 1,
        <<Lit("Successfully installed ") \o Plus("\n", TRUE, 1)>>)
>>

LOGGING_PATTERNS == <<
    Pattern("log4j|logging\\.(?:disable|off|level)", 0,
        <<Lit("log4j"), Lit("logging.disable"), Lit("logging.off"), Lit("logging.level")>>),
    Pattern("rootLogger|logger\\.level", 0,
        <<Lit("rootLogger"), Lit("logger.level")>>),
    Pattern("spark\\.sql\\.adaptive\\.logLevel", 0,
        <<Lit("spark.sql.adaptive.logLevel")>>),
    Pattern("spark\\.log\\.level", 0,
        <<Lit("spark.log.level")>>)
>>

(***************************************************************************)
(* urllib.parse.urlparse, as far as _extract_hostname uses it: the netloc  *)
(* and the hostname of the result, or the ValueError it raises.            *)
(***************************************************************************)

SCHEME_CHARS == CharSet(LOWERCASE \o UPPERCASE \o DIGITS \o "+-.")

\* str.lstrip(chars)
lstrip(s, chars) ==
    LET keep == {i \in 1..Len(s) : At(s, i) \notin CharSet(chars)}
    IN  IF keep = {} THEN "" ELSE slice(s, MinOf(keep), Len(s))

\* urlsplit, first step: leading blanks stripped, tab and line breaks removed
remove_unsafe(url) ==
    remove(remove(remove(lstrip(url, WHITESPACE), "\t"), "\r"), "\n")

\* the url after its scheme when what precedes the first ":" (at i) is a
\* scheme: a letter, then letters, digits, + - .
after_scheme(url, i) ==
    IF /\ i > 1
       /\ At(url, 1) \in CharSet(LOWERCASE \o UPPERCASE)
       /\ \A j \in 1..(i - 1) : At(url, j) \in SCHEME_CHARS
    THEN slice(url, i + 1, Len(url))
    ELSE url

split_scheme(url) == after_scheme(url, find(url, ":"))

\* where the netloc of "//netloc..." ends: before the first of / ? #
netloc_end(url) ==
    LET delims == {j \in 3..Len(url) : At(url, j) \in {"/", "?", "#"}}
    IN  IF delims = {} THEN Len(url) ELSE MinOf(delims) - 1

split_netloc(url) == IF startswith(url, "//") THEN slice(url, 3, netloc_end(url)) ELSE ""

\* the SplitResult, or the ValueError for a netloc with one bracket only
split_result(netloc) ==
    [netloc |-> netloc, raises |-> contains(netloc, "[") # contains(netloc, "]")]

\* urlsplit: the scheme split off the cleaned url, then the netloc taken
\* between "//" and the first of / ? #
urlsplit(url0) == split_result(split_netloc(split_scheme(remove_unsafe(url0))))

\* h lower-cased up to its first "%" (at pct; 0: none)
lower_up_to(h, pct) ==
    IF pct = 0 THEN lower(h) ELSE lower(slice(h, 1, pct - 1)) \o slice(h, pct, Len(h))

\* SplitResult.hostname for the host part h of the netloc; None when empty
hostname_of(h) == IF h = "" THEN None ELSE lower_up_to(h, find(h, "%"))

\* the host of "host:port" or "[host]:port"
host_part(hostinfo) ==
    IF contains(hostinfo, "[")
    THEN splitfirst(slice(hostinfo, find(hostinfo, "[") + 1, Len(hostinfo)), "]")
    ELSE splitfirst(hostinfo, ":")

\* SplitResult.hostname: the netloc after its last "@", cut at the first ":"
\* or taken from between its brackets, lower-cased up to a "%"; None when empty
hostname(netloc) == hostname_of(host_part(splitlast(netloc, "@")))

(***************************************************************************)
(* SparkLogAnalyzer: hostname normalisation and the trust classifier       *)
(***************************************************************************)

DEFAULT_TRUSTED_DOMAINS == <<
    "pbidedicated.windows.net",
    "analysis.windows.net",
    "api.fabric.microsoft.com",
    "exec.eastus.notebook.windows.net",
    "exec.westus.notebook.windows.net",
    "exec.northeurope.notebook.windows.net",
    "exec.westeurope.notebook.windows.net",
    "onelake.dfs.fabric.microsoft.com",
    "sparkui.fabric.microsoft.com",
    "storage.azure.com",
    "tokenservice1.eastus.trident.azuresynapse.net",
    "tokenservice1.westus.trident.azuresynapse.net",
    "tokenservice1.northeurope.trident.azuresynapse.net",
    "tokenservice1.westeurope.trident.azuresynapse.net",
    "operation-service",
    "vm-",
    "localhost",
    "127.0.0.1",
    "::1"
>>

\* the punctuation _extract_hostname strips at both ends
PUNCTUATION == " ,()\"'"

\* if '/' in host: host = host.split('/')[0]
cut_path(host) == IF contains(host, "/") THEN splitfirst(host, "/") ELSE host

\* if '?' in host: host = host.split('?')[0]
cut_query(host) == IF contains(host, "?") THEN splitfirst(host, "?") ELSE host

\* if ':' in host and not host.count(':') > 1: host = host.split(':')[0]
cut_port(host) ==
    IF contains(host, ":") /\ ~(count(host, ":") > 1) THEN splitfirst(host, ":") ELSE host

\* _extract_hostname: the steps for a token that is not parsed as a URL
manual_extract(stripped) == strip(cut_port(cut_query(cut_path(stripped))), PUNCTUATION \o ".")

\* parsed.hostname or parsed.netloc.split(':')[0]
hostname_or_netloc(parsed_hostname, netloc) ==
    IF parsed_hostname # None THEN parsed_hostname ELSE splitfirst(netloc, ":")

\* _extract_hostname of the stripped token, parsed being urlparse(stripped)
extract_parsed(stripped, parsed) ==
    IF contains(stripped, "://") /\ ~parsed.raises
    THEN hostname_or_netloc(hostname(parsed.netloc), parsed.netloc)
    ELSE manual_extract(stripped)

extract_stripped(stripped) == extract_parsed(stripped, urlsplit(stripped))

\* the exception urlparse(host_input) raises, None when it returns
urlparse_error(parsed) == IF parsed.raises THEN "ValueError" ELSE None

\* except: pass, with the exception reaching the caller all the same
except_reraise(error) == error

\* except: pass: whatever the try block raised is dropped
except_pass(error) == None

\* the exception that leaves _extract_hostname for the stripped token
extract_stripped_error(stripped) ==
    IF contains(stripped, "://") THEN except_pass(urlparse_error(urlsplit(stripped)))
    ELSE None

\* the exception that leaves _extract_hostname, None when it returns
extract_hostname_error(host_input) ==
    IF host_input = "" THEN None
    ELSE extract_stripped_error(strip(host_input, PUNCTUATION))

\* SparkLogAnalyzer._extract_hostname
extract_hostname(host_input) ==
    IF host_input = "" THEN "" ELSE extract_stripped(strip(host_input, PUNCTUATION))

\* re.match(r'^...$', s): $ also matches before a newline that ends s
UpToDollar(s) == IF endswith(s, "\n") THEN slice(s, 1, Len(s) - 1) ELSE s

HEX == CharSet("abcdef" \o DIGITS)

\* uuid_pattern: ^[a-f0-9]{8}-[a-f0-9]{4}-[a-f0-9]{4}-[a-f0-9]{4}-[a-f0-9]{12}$
is_uuid(s0) ==
    LET s == UpToDollar(s0)
        dashes == {9, 14, 19, 24}
    IN  /\ Len(s) = 36
        /\ \A i \in 1..36 : IF i \in dashes THEN At(s, i) = "-" ELSE At(s, i) \in HEX

\* ^spark\d+triprodeus$
is_spark_host(s0) ==
    LET s == UpToDollar(s0)
        n == Len(s)
    IN  /\ n >= Len("spark") + 1 + Len("triprodeus")
        /\ startswith(s, "spark")
        /\ endswith(s, "triprodeus")
        /\ \A i \in (Len("spark") + 1)..(n - Len("triprodeus")) : At(s, i) \in CharSet(DIGITS)

MIN_TEMP_STORAGE_LEN == 20
MAX_TEMP_STORAGE_LEN == 22

\* is_temp_storage_id with the length test written > 20: a 20-character name
\* is no longer taken
is_temp_storage_id_above_min(s0) ==
    LET s == IF endswith(s0, "\n") THEN slice(s0, 1, Len(s0) - 1) ELSE s0
    IN  /\ Len(s0) > MIN_TEMP_STORAGE_LEN
        /\ Len(s) \in MIN_TEMP_STORAGE_LEN..MAX_TEMP_STORAGE_LEN
        /\ \A i \in 1..Len(s) : At(s, i) \in CharSet(ALNUM)

\* len(hostname_base) >= 20 and re.match(r'^[a-z0-9]{20,22}$', hostname_base)
is_temp_storage_id(s0) ==
    LET s == UpToDollar(s0)
    IN  /\ Len(s0) >= MIN_TEMP_STORAGE_LEN
        /\ Len(s) \in MIN_TEMP_STORAGE_LEN..MAX_TEMP_STORAGE_LEN
        /\ \A i \in 1..Len(s) : At(s, i) \in CharSet(ALNUM)

common_words == {"dev", "prod", "test", "msft", "east", "west", "central", "stage", "stag"}

DFS_SUFFIX == ".dfs.core.windows.net"

\* rule 1: workspace-based temp storage, uuid@account.dfs.core.windows.net
workspace_rule(host_lower) ==
    /\ contains(host_lower, DFS_SUFFIX)
    /\ contains(host_lower, "@")
    /\ LET container_part == splitfirst(host_lower, "@")
           clean_container == remove(remove(container_part, "abfss://"), "abfs://")
       IN  is_uuid(clean_container)

\* hostname_base: every occurrence of .dfs.core.windows.net taken out
hostname_base(host_lower) ==
    IF contains(host_lower, DFS_SUFFIX) THEN remove(host_lower, DFS_SUFFIX) ELSE host_lower

\* rule 2: spark<digits>triprodeus
spark_rule(host_lower) == is_spark_host(hostname_base(host_lower))

\* temp_storage_rule without the common-words exclusion
temp_storage_rule_any_word(host_lower) ==
    LET base == IF contains(host_lower, DFS_SUFFIX)
                THEN remove(host_lower, DFS_SUFFIX) ELSE host_lower
    IN  is_temp_storage_id(base)

\* rule 3: 20-22 lowercase alphanumerics with none of the common words
temp_storage_rule(host_lower) ==
    /\ is_temp_storage_id(hostname_base(host_lower))
    /\ ~ \E word \in common_words : contains(hostname_base(host_lower), word)

\* domain_matches comparing with the entry as written, not lower-cased
domain_matches_case_sensitive(host_lower, trusted_domain) ==
    \/ host_lower = trusted_domain
    \/ endswith(host_lower, "." \o trusted_domain)
    \/ endswith(host_lower, trusted_domain)
    \/ (endswith(trusted_domain, "-") /\ startswith(host_lower, trusted_domain))

\* rule 4, one entry of the list: exact, suffix, or prefix for an entry ending in "-"
domain_matches(host_lower, trusted_domain) ==
    LET trusted_lower == lower(trusted_domain)
    IN  \/ host_lower = trusted_lower
        \/ endswith(host_lower, "." \o trusted_lower)
        \/ endswith(host_lower, trusted_lower)
        \/ (endswith(trusted_lower, "-") /\ startswith(host_lower, trusted_lower))

\* rule 4: the loop over self.trusted_domains
domain_rule(host_lower, domains) ==
    \E i \in 1..Len(domains) : domain_matches(host_lower, domains[i])

\* the four rules of is_trusted_host, on host_lower = actual_host.lower()
trusted_by_rule(host_lower, domains) ==
    \/ workspace_rule(host_lower)
    \/ spark_rule(host_lower)
    \/ temp_storage_rule(host_lower)
    \/ domain_rule(host_lower, domains)

\* is_trusted_host after actual_host = self._extract_hostname(host)
trusted_actual_host(actual_host, domains) ==
    IF actual_host = "" THEN FALSE ELSE trusted_by_rule(lower(actual_host), domains)

\* SparkLogAnalyzer.is_trusted_host, reading the list domains
is_trusted_host(host, domains) == trusted_actual_host(extract_hostname(host), domains)

\* the exception that leaves is_trusted_host: the one its call of
\* _extract_hostname lets out, None when it returns
is_trusted_host_error(host) == extract_hostname_error(host)

\* SparkLogAnalyzer.__init__: trusted_domains or DEFAULT_TRUSTED_DOMAINS.copy()
init_trusted_domains(arg) ==
    IF arg = None \/ arg = <<>> THEN DEFAULT_TRUSTED_DOMAINS ELSE arg

\* [re.compile(pattern, re.IGNORECASE) for pattern in patterns], as the texts
compile(patterns) == [i \in 1..Len(patterns) |-> patterns[i].pattern]

\* SparkLogAnalyzer.__init__: the three catalogs, compiled
init_compiled_patterns ==
    [connection |-> compile(CONNECTION_PATTERNS),
     pip |-> compile(PIP_PATTERNS),
     logging |-> compile(LOGGING_PATTERNS)]

(***************************************************************************)
(* SparkLogAnalyzer.analyze_single_log_file: the scan of one log file      *)
(***************************************************************************)

HEXCHARS == "abcdef" \o DIGITS

\* abfs_pattern, searched in the lower-cased line
ABFS_PATTERN ==
    Pattern("abfss?://([a-f0-9]{8}-[a-f0-9]{4}-[a-f0-9]{4}-[a-f0-9]{4}-[a-f0-9]{12})@[a-zA-Z0-9]+\\.dfs\\.core\\.windows\\.net", 1,
        <<Lit("abfs") \o Opt("s") \o Lit("://")
            \o Exactly(HEXCHARS, 8) \o Lit("-") \o Exactly(HEXCHARS, 4) \o Lit("-")
            \o Exactly(HEXCHARS, 4) \o Lit("-") \o Exactly(HEXCHARS, 4) \o Lit("-")
            \o Exactly(HEXCHARS, 12) \o Lit("@") \o Plus(ALNUM, FALSE, 0)
            \o Lit(DFS_SUFFIX)>>)

\* the line-level check for an ABFS URL with a workspace UUID container
has_workspace_abfs_url(line) ==
    LET raw_line_lower == lower(line)
    IN  /\ contains(raw_line_lower, "abfs")
        /\ contains(raw_line_lower, "@")
        /\ contains(raw_line_lower, DFS_SUFFIX)
        /\ search(ABFS_PATTERN, raw_line_lower).ok

\* matches that stops at the first pattern that matches the line
matches_first_only(patterns, line, i) ==
    LET hits == {j \in i..Len(patterns) : search(patterns[j], line).ok}
        first == MinOf(hits)
    IN  IF hits = {} THEN <<>>
        ELSE <<[pattern |-> patterns[first].pattern, groups |-> patterns[first].groups,
                g |-> search(patterns[first], line).g]>>

\* if match: one record for this pattern
if_match(pattern, match) ==
    IF match.ok
    THEN <<[pattern |-> pattern.pattern, groups |-> pattern.groups, g |-> match.g]>>
    ELSE <<>>

RECURSIVE matches(_, _, _)
\* for pattern in patterns: match = pattern.search(line); if match: ...
\* the matches of the patterns i.. on the line, in catalog order
matches(patterns, line, i) ==
    IF i > Len(patterns) THEN <<>>
    ELSE if_match(patterns[i], search(patterns[i], line)) \o matches(patterns, line, i + 1)

\* everything the scan finds on one line, whatever the trusted list
scan_line(line) ==
    [connection |-> matches(CONNECTION_PATTERNS, line, 1),
     pip |-> matches(PIP_PATTERNS, line, 1),
     logging |-> matches(LOGGING_PATTERNS, line, 1),
     abfs |-> has_workspace_abfs_url(line)]

\* the lines log files are made of
LogLines == {
    "Establishing connection to 10.0.0.5:9092 for kafka\n",
    "connecting to evil.example.com:443\n",
    "connecting to evil.example.com:443 via abfss://550e8400-e29b-41d4-a716-446655440000@acct.dfs.core.windows.net/x\n",
    "GET https://api.fabric.microsoft.com/v1\n",
    "GET https://myacct.blob.core.windows.net/c\n",
    "python -m pip install requests\n",
    "log4j.rootLogger=OFF kafka: broker1:9092\n",
    "spark.log.level=WARN\n",
    "connecting to evil.example.com:443 via abfs://myteam@acct.dfs.core.windows.net/x\n",
    "wasbs://data@store.blob.core.windows.net/f\n"
}

\* scan_line of every line of LogLines, evaluated once
ScanTable == [line \in LogLines |-> scan_line(line)]

scan(line) == ScanTable[line]

\* connection_info of one connection pattern match
connection_info(line_number, line, m) ==
    [line_number |-> line_number,
     host |-> m.g[1],
     port |-> IF m.groups > 1 THEN m.g[2] ELSE None,
     raw_line |-> strip(line, WHITESPACE),
     pattern_matched |-> m.pattern]

\* pip_info of one package-install pattern match
pip_info(line_number, line, m) ==
    [line_number |-> line_number,
     package |-> m.g[1],
     raw_line |-> strip(line, WHITESPACE),
     pattern_matched |-> m.pattern]

\* logging_info of one logging pattern match
logging_info(line_number, line, m) ==
    [line_number |-> line_number,
     raw_line |-> strip(line, WHITESPACE),
     pattern_matched |-> m.pattern]

\* is_trusted of a connection: the line-level ABFS check (abfs_line: the line
\* has an ABFS URL with a workspace UUID), then the classifier on the host
connection_is_trusted(host, abfs_line, domains) ==
    IF abfs_line THEN TRUE ELSE is_trusted_host(host, domains)

\* file_connection that leaves a trusted record in external_connections too
file_connection_in_both(result, info, is_trusted) ==
    IF is_trusted
    THEN [result EXCEPT !.connections = Append(@, info),
                        !.trusted_connections = Append(@, info),
                        !.external_connections = Append(@, info)]
    ELSE [result EXCEPT !.connections = Append(@, info),
                        !.external_connections = Append(@, info)]

\* result['connections'].append(connection_info), then
\* if is_trusted: result['trusted_connections'].append(connection_info)
\* else: result['external_connections'].append(connection_info)
file_connection(result, info, is_trusted) ==
    IF is_trusted
    THEN [result EXCEPT !.connections = Append(@, info),
                        !.trusted_connections = Append(@, info)]
    ELSE [result EXCEPT !.connections = Append(@, info),
                        !.external_connections = Append(@, info)]

RECURSIVE file_connections(_, _, _, _, _, _)
\* the first n connection matches of a line filed, in catalog order
file_connections(result, line_number, line, found, n, domains) ==
    IF n = 0 THEN result
    ELSE file_connection(
             file_connections(result, line_number, line, found, n - 1, domains),
             connection_info(line_number, line, found.connection[n]),
             connection_is_trusted(found.connection[n].g[1], found.abfs, domains))

\* the records of one line appended to the result, found being what the
\* patterns and the ABFS check found on the line
append_found(result, line_number, line, found, domains) ==
    [file_connections(result, line_number, line, found, Len(found.connection), domains)
        EXCEPT
            !.pip_installs =
                @ \o [i \in 1..Len(found.pip) |-> pip_info(line_number, line, found.pip[i])],
            !.logging_config =
                @ \o [i \in 1..Len(found.logging) |->
                          logging_info(line_number, line, found.logging[i])]]

\* the body of the loop over the lines, for one line
scan_one_line(result, line_number, line, domains) ==
    append_found(result, line_number, line, scan(line), domains)

RECURSIVE scan_lines(_, _, _, _)
\* the result after the first n lines of the file went through the loop
scan_lines(result, lines, n, domains) ==
    IF n = 0 THEN result
    ELSE scan_one_line(scan_lines(result, lines, n - 1, domains), n, lines[n], domains)

RECURSIVE getsize(_)
\* os.path.getsize of a file with these lines
getsize(lines) == IF lines = <<>> THEN 0 ELSE Len(Head(lines)) + getsize(Tail(lines))

\* a file on disk: whether it exists, its lines, and the line at which reading
\* it raises an error (0: no error; Len(lines) + 1: after the last line)
File(exists, lines, error_at) == [exists |-> exists, lines |-> lines, error_at |-> error_at]

MissingFile == File(FALSE, <<>>, 0)

READ_ERROR == "read error"

\* result as analyze_single_log_file initialises it
empty_result(path, exists) ==
    [log_file |-> path, connections |-> <<>>, external_connections |-> <<>>,
     trusted_connections |-> <<>>, pip_installs |-> <<>>, logging_config |-> <<>>,
     file_exists |-> exists, file_size |-> 0, error |-> None]

\* how many lines the loop goes through before the file ends or reading fails
lines_read(file) == IF file.error_at = 0 THEN Len(file.lines) ELSE file.error_at - 1

\* SparkLogAnalyzer.analyze_single_log_file on the file found at path
analyze_single_log_file(path, file, domains) ==
    IF ~file.exists THEN empty_result(path, FALSE)
    ELSE [scan_lines([empty_result(path, TRUE) EXCEPT !.file_size = getsize(file.lines)],
                     file.lines, lines_read(file), domains)
             EXCEPT !.error = IF file.error_at = 0 THEN None ELSE READ_ERROR]

\* how many lines a log file has at most
MaxLines == 2

\* the files analyze_single_log_file can find at a path
Files ==
    {MissingFile} \cup
    UNION {{File(TRUE, lines, e) : lines \in [1..n -> LogLines], e \in 0..(n + 1)} :
              n \in 0..MaxLines}

\* the path of a log file analyzed on its own
DirectPaths == {"/tmp/spark_logs/stderr"}

(***************************************************************************)
(* Inputs of the classifier: host tokens built as prefix + core + suffix,  *)
(* and the lists an analyzer can be constructed with                       *)
(***************************************************************************)

WORKSPACE_UUID == "550e8400-e29b-41d4-a716-446655440000"

\* characters for made-up account names; no common word occurs in it
FILLER == "q0w1x2y3z4q5w6x7y8z9q0w1x2y3"

\* how many lengths below and above the 20-22 window the made-up names cover
Margin == 1

BodyLengths == (MIN_TEMP_STORAGE_LEN - Margin)..(MAX_TEMP_STORAGE_LEN + Margin)

\* a made-up name of n lowercase alphanumerics that ends with tail
NameEnding(n, tail) == slice(FILLER, 1, n - Len(tail)) \o tail

\* a made-up name of n lowercase alphanumerics that starts with head
NameStarting(n, head) == head \o slice(FILLER, 1, n - Len(head))

\* spark<k digits>triprodeus
SparkName(k) == "spark" \o slice(DIGITS \o DIGITS, 1, k) \o "triprodeus"

HostCores ==
    {NameEnding(n, "") : n \in BodyLengths}
    \cup {NameStarting(n, w) : n \in BodyLengths, w \in common_words}
    \cup {NameEnding(n, "localhost") : n \in BodyLengths}
    \cup {SparkName(k) : k \in 0..(MAX_TEMP_STORAGE_LEN + Margin - Len(SparkName(0)))}
    \cup {"Q0W1X2Y3Z4Q5W6X7Y8Z9", "acctname", "evil.example.com", "EVIL.Example.Com",
          "sub.storage.azure.com", "xstorage.azure.com", "VM-123", "notvm-1",
          "10.0.0.5", ""}
    \cup {DEFAULT_TRUSTED_DOMAINS[i] : i \in 1..Len(DEFAULT_TRUSTED_DOMAINS)}

\* what surrounds a host in a token: a scheme, a container, punctuation
HostPrefixes ==
    {"abfss://" \o WORKSPACE_UUID \o "@", WORKSPACE_UUID \o "@", "abfs://myteam@",
     "https://", " (\""}

\* what follows a host in a token: the storage suffix, a port, a path, punctuation
HostSuffixes ==
    {DFS_SUFFIX, DFS_SUFFIX \o "x", ":8080", "/p?q=1", ".\")"}

\* tokens that are not well-formed hosts or URLs: brackets, nothing but
\* punctuation, no host, a dot after the host, several "@"
OddTokens ==
    {"http://[::1", "HTTP://]x", "http://[::1]:8080/x", "[bad]:1", "http://", "://",
     "()", "  ", ",", "https://user@Host.Example.com:80/p",
     "https://evil.example.com.", "https://api.fabric.microsoft.com./v1",
     WORKSPACE_UUID \o "@x@acct" \o DFS_SUFFIX,
     "x@" \o WORKSPACE_UUID \o "@acct" \o DFS_SUFFIX,
     "abfss://" \o WORKSPACE_UUID \o "@x@acct" \o DFS_SUFFIX}

\* the tokens is_trusted_host and _extract_hostname are called with
Tokens ==
    HostCores
    \cup OddTokens
    \cup {p \o c : p \in HostPrefixes, c \in HostCores}
    \cup {c \o x : c \in HostCores, x \in HostSuffixes}
    \cup {p \o c \o DFS_SUFFIX \o x : p \in HostPrefixes, x \in {"", "/p?q=1"},
              c \in {"acctname", NameEnding(MIN_TEMP_STORAGE_LEN, ""), SparkName(Margin)}}

RECURSIVE Reverse(_)
Reverse(q) == IF q = <<>> THEN <<>> ELSE Reverse(Tail(q)) \o <<Head(q)>>

\* the trusted_domains argument of the constructor
ConstructorLists ==
    {None, <<>>, Reverse(DEFAULT_TRUSTED_DOMAINS), <<"Example.COM", "corp-">>}

\* the domains main() adds with --add-trusted-domain
AddedDomains == {"evil.example.com", "dfs.core.windows.net"}

\* how many domains are added after construction, at most
MaxAdded == 1

(***************************************************************************)
(* The run over a consolidated file: sessions, their log files, the views  *)
(***************************************************************************)

\* dict.get(key, default)
get(d, key, default) == IF key \in DOMAIN d THEN d[key] ELSE default

UNKNOWN == "Unknown"

\* the keys analyze_consolidated_logs copies into session_info
SESSION_INFO_KEYS ==
    {"notebook_name", "notebook_id", "workspace_name", "workspace_id",
     "spark_application_id", "livy_id", "app_url", "temp_directory",
     "download_timestamp"}

session_info(session) == [k \in SESSION_INFO_KEYS |-> get(session, k, UNKNOWN)]

\* the log type read off the path of a downloaded file
log_type_stdout_first(log_file) ==
    IF contains(log_file, "stdout") THEN "stdout"
    ELSE IF contains(log_file, "livy_logs") THEN "livy"
    ELSE IF contains(log_file, "stderr") THEN "stderr"
    ELSE "unknown"

\* the log type a downloaded file is analyzed under
log_type(log_file) ==
    IF contains(log_file, "livy_logs") THEN "livy"
    ELSE IF contains(log_file, "stdout") THEN "stdout"
    ELSE IF contains(log_file, "stderr") THEN "stderr"
    ELSE "unknown"

\* a dict with no keys
EmptyDict == [k \in {} |-> None]

\* d[key] = value
setitem(d, key, value) == [k \in DOMAIN d \cup {key} |-> IF k = key THEN value ELSE d[k]]

\* the log files the consolidated file points at, as found on disk
LIVY_LOG == "/tmp/spark_logs/livy_logs.txt"
STDOUT_LOG == "/tmp/spark_logs/stdout"
STDERR_LOG == "/tmp/spark_logs/stderr"

\* a path with no file behind it, and a second stderr file whose read fails
DRIVER_LOG == "/tmp/spark_logs/driver.log"
STDERR_OLD_LOG == "/tmp/spark_logs/stderr.1"

\* paths with no file behind them, in temp directories made by the collector
\* and in directories whose names hold a log-type word
LogDirs == {"/tmp/spark_logs_7_k2/", "/mnt/livy_logs/", "/mnt/stdout/"}
LogNames == {"livy_logs.txt", "driver_stdout.log", "driver_stderr.log", "driver.log",
             "stderr_stdout.log"}
NamedPaths == {dir \o name : dir \in LogDirs, name \in LogNames}

LogPaths == {LIVY_LOG, STDOUT_LOG, STDERR_LOG, DRIVER_LOG, STDERR_OLD_LOG} \cup NamedPaths

TRUSTED_LINE == "GET https://api.fabric.microsoft.com/v1\n"
EXTERNAL_LINE == "connecting to evil.example.com:443\n"

Disk ==
    [path \in LogPaths |->
        CASE path = LIVY_LOG -> File(TRUE, <<TRUSTED_LINE, "spark.log.level=WARN\n">>, 0)
          [] path = STDOUT_LOG ->
                File(TRUE, <<"python -m pip install requests\n",
                             "log4j.rootLogger=OFF kafka: broker1:9092\n">>, 0)
          [] path = STDERR_LOG -> File(TRUE, <<TRUSTED_LINE, EXTERNAL_LINE>>, 0)
          [] path = DRIVER_LOG -> MissingFile
          [] path = STDERR_OLD_LOG -> File(TRUE, <<EXTERNAL_LINE, TRUSTED_LINE>>, 2)
          [] OTHER -> MissingFile]

\* the lists self.trusted_domains goes through in a run started by main()
RunLists ==
    {DEFAULT_TRUSTED_DOMAINS \o added :
        added \in UNION {[1..n -> AddedDomains] : n \in 0..MaxAdded}}

\* analyze_single_log_file of every file of Disk under every list of
\* RunLists, evaluated once
AnalysisTable ==
    [path \in LogPaths |->
        [domains \in RunLists |-> analyze_single_log_file(path, Disk[path], domains)]]

\* self.analyze_single_log_file(log_file) in a run over Disk
analysis_of(log_file, domains) ==
    IF domains \in RunLists THEN AnalysisTable[log_file][domains]
    ELSE analyze_single_log_file(log_file, Disk[log_file], domains)

RECURSIVE log_analyses_until_missing(_, _, _)
\* log_analyses with the loop over downloaded_files left at the first missing file
log_analyses_until_missing(downloaded_files, n, domains) ==
    IF n = 0 THEN EmptyDict
    ELSE IF \E i \in 1..(n - 1) : ~Disk[downloaded_files[i]].exists
         THEN log_analyses_until_missing(downloaded_files, n - 1, domains)
         ELSE setitem(log_analyses_until_missing(downloaded_files, n - 1, domains),
                      log_type(downloaded_files[n]),
                      analysis_of(downloaded_files[n], domains))

RECURSIVE log_analyses(_, _, _)
\* session_result['log_analyses'] after the first n downloaded files
log_analyses(downloaded_files, n, domains) ==
    IF n = 0 THEN EmptyDict
    ELSE setitem(log_analyses(downloaded_files, n - 1, domains),
                 log_type(downloaded_files[n]), analysis_of(downloaded_files[n], domains))

\* the session_result built for one session of log_summaries
session_result(session, domains) ==
    LET downloaded_files == get(session, "downloaded_files", <<>>)
    IN  [session_info |-> session_info(session),
         log_analyses |-> log_analyses(downloaded_files, Len(downloaded_files), domains)]

\* the session results appended for the sessions of log_summaries, in order
session_results_of(log_summaries, domains) ==
    [i \in 1..Len(log_summaries) |-> session_result(log_summaries[i], domains)]

\* self.session_results after the call: the results before it are dropped
appended_to_fresh(results, new) == new

\* self.session_results after the loop appended the session results `new`
appended(results, new) == results \o new

RECURSIVE SumOver(_, _)
\* the sum of f over the keys in S
SumOver(S, f) ==
    IF S = {} THEN 0
    ELSE LET k == CHOOSE x \in S : TRUE IN f[k] + SumOver(S \ {k}, f)

\* total_external after the loop over log_analyses
total_external(session) ==
    SumOver(DOMAIN session.log_analyses,
            [t \in DOMAIN session.log_analyses |->
                Len(session.log_analyses[t].external_connections)])

\* total_trusted after the loop over log_analyses
total_trusted(session) ==
    SumOver(DOMAIN session.log_analyses,
            [t \in DOMAIN session.log_analyses |->
                Len(session.log_analyses[t].trusted_connections)])

\* has_external set by any log with a connection of either kind
has_external_any_connection(session) ==
    \E t \in DOMAIN session.log_analyses : session.log_analyses[t].connections # <<>>

\* has_external after the loop over log_analyses
has_external(session) ==
    \E t \in DOMAIN session.log_analyses :
        session.log_analyses[t].external_connections # <<>>

\* the per-log-type lists of one kind, for the log types where the list is not empty
connection_details(session, kind) ==
    LET types == {t \in DOMAIN session.log_analyses : session.log_analyses[t][kind] # <<>>}
    IN  [t \in types |-> session.log_analyses[t][kind]]

\* session_summary of get_sessions_with_external_connections
external_session_summary(session) ==
    [notebook_name |-> session.session_info["notebook_name"],
     notebook_id |-> session.session_info["notebook_id"],
     livy_id |-> session.session_info["livy_id"],
     workspace_name |-> session.session_info["workspace_name"],
     app_url |-> session.session_info["app_url"],
     total_external_connections |-> total_external(session),
     total_trusted_connections |-> total_trusted(session),
     external_connection_details |-> connection_details(session, "external_connections"),
     trusted_connection_details |-> connection_details(session, "trusted_connections")]

RECURSIVE get_sessions_with_external_connections(_)
\* SparkLogAnalyzer.get_sessions_with_external_connections over these results
get_sessions_with_external_connections(results) ==
    IF results = <<>> THEN <<>>
    ELSE LET n == Len(results)
             before == get_sessions_with_external_connections(SubSeq(results, 1, n - 1))
         IN  IF has_external(results[n])
             THEN Append(before, external_session_summary(results[n]))
             ELSE before

\* has_connections set by trusted connections only
has_connections_trusted_only(session) ==
    \E t \in DOMAIN session.log_analyses :
        session.log_analyses[t].trusted_connections # <<>>

\* has_connections after the loop over log_analyses
has_connections(session) ==
    \E t \in DOMAIN session.log_analyses : session.log_analyses[t].connections # <<>>

\* total_connections after the loop over log_analyses
total_connections(session) ==
    SumOver(DOMAIN session.log_analyses,
            [t \in DOMAIN session.log_analyses |-> Len(session.log_analyses[t].connections)])

\* session_summary of get_sessions_with_outbound_connections
outbound_session_summary(session) ==
    [notebook_name |-> session.session_info["notebook_name"],
     notebook_id |-> session.session_info["notebook_id"],
     livy_id |-> session.session_info["livy_id"],
     workspace_name |-> session.session_info["workspace_name"],
     app_url |-> session.session_info["app_url"],
     total_connections |-> total_connections(session),
     total_external_connections |-> total_external(session),
     total_trusted_connections |-> total_trusted(session),
     connection_details |-> connection_details(session, "connections"),
     external_connection_details |-> connection_details(session, "external_connections"),
     trusted_connection_details |-> connection_details(session, "trusted_connections")]

RECURSIVE get_sessions_with_outbound_connections(_)
\* SparkLogAnalyzer.get_sessions_with_outbound_connections over these results
get_sessions_with_outbound_connections(results) ==
    IF results = <<>> THEN <<>>
    ELSE LET n == Len(results)
             before == get_sessions_with_outbound_connections(SubSeq(results, 1, n - 1))
         IN  IF has_connections(results[n])
             THEN Append(before, outbound_session_summary(results[n]))
             ELSE before

HAS_EXTERNAL == "! HAS EXTERNAL"
TRUSTED_ONLY == "+ TRUSTED ONLY"

\* print_comprehensive_summary: the status printed for a session of the
\* outbound view
outbound_status(session) ==
    IF get(session, "total_external_connections", 0) > 0 THEN HAS_EXTERNAL ELSE TRUSTED_ONLY

\* has_pip after the loop over log_analyses
has_pip(session) ==
    \E t \in DOMAIN session.log_analyses : session.log_analyses[t].pip_installs # <<>>

\* total_pip_installs counting the logs with an install, not the installs
total_pip_logs(session) ==
    Cardinality({t \in DOMAIN session.log_analyses :
                    session.log_analyses[t].pip_installs # <<>>})

\* total_pip_installs after the loop over log_analyses
total_pip_installs(session) ==
    SumOver(DOMAIN session.log_analyses,
            [t \in DOMAIN session.log_analyses |-> Len(session.log_analyses[t].pip_installs)])

\* session_summary of get_sessions_with_pip_installs
pip_session_summary(session) ==
    [notebook_name |-> session.session_info["notebook_name"],
     notebook_id |-> session.session_info["notebook_id"],
     livy_id |-> session.session_info["livy_id"],
     workspace_name |-> session.session_info["workspace_name"],
     total_pip_installs |-> total_pip_installs(session),
     pip_details |-> connection_details(session, "pip_installs")]

RECURSIVE get_sessions_with_pip_installs(_)
\* SparkLogAnalyzer.get_sessions_with_pip_installs over these results
get_sessions_with_pip_installs(results) ==
    IF results = <<>> THEN <<>>
    ELSE LET n == Len(results)
             before == get_sessions_with_pip_installs(SubSeq(results, 1, n - 1))
         IN  IF has_pip(results[n])
             THEN Append(before, pip_session_summary(results[n]))
             ELSE before

\* the keywords that mark a logging line as one that disables logs
DISABLE_KEYWORDS == {"disable", "off", "false"}

\* the keywords looked for in the raw line as it is written
is_disabling_case_sensitive(log_config) ==
    \E keyword \in DISABLE_KEYWORDS : contains(log_config.raw_line, keyword)

\* any(keyword in log_config['raw_line'].lower() for keyword in [...])
is_disabling(log_config) ==
    \E keyword \in DISABLE_KEYWORDS : contains(lower(log_config.raw_line), keyword)

\* has_logging_config after the loop over log_analyses
has_logging_config(session) ==
    \E t \in DOMAIN session.log_analyses : session.log_analyses[t].logging_config # <<>>

\* has_disabled_logs after the loop over log_analyses
has_disabled_logs(session) ==
    \E t \in DOMAIN session.log_analyses :
        \E i \in 1..Len(session.log_analyses[t].logging_config) :
            is_disabling(session.log_analyses[t].logging_config[i])

\* session_detail of get_logging_status_summary
session_detail(session) ==
    [notebook_name |-> session.session_info["notebook_name"],
     livy_id |-> session.session_info["livy_id"],
     has_disabled_logs |-> has_disabled_logs(session),
     logging_configs |-> connection_details(session, "logging_config")]

\* logging_summary after the loop body has run for one more session
logging_summary_with(summary, session) ==
    [sessions_with_logging_config |->
         summary.sessions_with_logging_config + (IF has_logging_config(session) THEN 1 ELSE 0),
     sessions_with_disabled_logs |->
         summary.sessions_with_disabled_logs + (IF has_disabled_logs(session) THEN 1 ELSE 0),
     details |->
         IF has_logging_config(session)
         THEN Append(summary.details, session_detail(session))
         ELSE summary.details]

RECURSIVE get_logging_status_summary(_)
\* SparkLogAnalyzer.get_logging_status_summary over these results
get_logging_status_summary(results) ==
    IF results = <<>>
    THEN [sessions_with_logging_config |-> 0, sessions_with_disabled_logs |-> 0,
          details |-> <<>>]
    ELSE logging_summary_with(
             get_logging_status_summary(SubSeq(results, 1, Len(results) - 1)),
             results[Len(results)])

\* the status lines print_comprehensive_summary prints for the outbound view
outbound_statuses(sessions) == [k \in 1..Len(sessions) |-> outbound_status(sessions[k])]

\* how many sessions one analyzer holds at most, how many files a session has
MaxSessions == 2
MaxFiles == 2

\* the orders in which a session lists its downloaded files
FileOrders ==
    {<<STDERR_LOG, STDERR_OLD_LOG, LIVY_LOG, STDOUT_LOG, DRIVER_LOG>>,
     <<DRIVER_LOG, STDOUT_LOG, STDERR_LOG, LIVY_LOG, STDERR_OLD_LOG>>,
     <<STDERR_OLD_LOG, LIVY_LOG, STDOUT_LOG, STDERR_LOG, DRIVER_LOG>>,
     <<LIVY_LOG, STDERR_LOG, STDOUT_LOG, DRIVER_LOG, STDERR_OLD_LOG>>}

\* the downloaded_files lists of a session: the first files of one of the orders
DownloadedFiles ==
    {SubSeq(order, 1, n) : order \in FileOrders,
                           n \in 0..MinOf({MaxFiles, Cardinality(LogPaths \ NamedPaths)})}

\* the k-th session of a run: 'livy_id', 'notebook_name' and 'downloaded_files'
\* are present, the other keys are not
Session(k, files) ==
    [livy_id |-> "livy-" \o ToString(k), notebook_name |-> "etl_notebook",
     downloaded_files |-> files]

\* the log_summaries a consolidated file can hold when `held` sessions were
\* analyzed before
LogSummaries(held) ==
    UNION {{[i \in 1..n |-> Session(held + i, files[i])] : files \in [1..n -> DownloadedFiles]} :
              n \in 0..(MaxSessions - held)}

\* what open() and json.load() find at the consolidated file path: no file, a
\* file that does not parse, a document without 'log_summaries', a document
\* with it
ConsolidatedFiles(held) ==
    {[found |-> FALSE, parsed |-> FALSE, data |-> EmptyDict],
     [found |-> TRUE, parsed |-> FALSE, data |-> EmptyDict],
     [found |-> TRUE, parsed |-> TRUE, data |-> EmptyDict]}
    \cup {[found |-> TRUE, parsed |-> TRUE, data |-> [log_summaries |-> ls]] :
             ls \in LogSummaries(held)}

\* the consolidated files of one session whose downloaded files are the paths
\* of NamedPaths, for an analyzer that holds no result yet
NamedRuns(held) ==
    IF held # 0 THEN {}
    ELSE {[found |-> TRUE, parsed |-> TRUE,
           data |-> [log_summaries |-> <<Session(1, files)>>]] :
             files \in UNION {[1..n -> NamedPaths] : n \in 0..MaxFiles}}

\* what can be at the path of the consolidated file: nothing, a file that does
\* not parse (a write that stopped half way), a JSON document
NoFile == [found |-> FALSE, parsed |-> FALSE, data |-> EmptyDict]
Truncated == [found |-> TRUE, parsed |-> FALSE, data |-> EmptyDict]
Document(data) == [found |-> TRUE, parsed |-> TRUE, data |-> data]

CONSOLIDATED_PATH == "output/consolidated_spark_logs_20240101_000000.json"

(***************************************************************************)
(* The analyzer as a state machine                                         *)
(***************************************************************************)

NoCall == [op |-> "none"]

\* IsTrustedHost remembering each trusted host in self.trusted_domains
IsTrustedHostCaching ==
    \E host \in Tokens :
        /\ call = NoCall
        /\ status = "running"
        /\ call' = [op |-> "is_trusted_host", host |-> host,
                    raised |-> is_trusted_host_error(host),
                    ret |-> is_trusted_host(host, trusted_domains)]
        /\ trusted_domains' = IF is_trusted_host(host, trusted_domains)
                              THEN trusted_domains \o <<host>> ELSE trusted_domains
        /\ UNCHANGED <<session_results, consolidated_file_path, compiled_patterns, status, output>>

\* is_trusted_host(host): reads self.trusted_domains, returns the decision or
\* lets an exception out
IsTrustedHost ==
    \E host \in Tokens :
        /\ call = NoCall
        /\ status = "running"
        /\ call' = [op |-> "is_trusted_host", host |-> host,
                    raised |-> is_trusted_host_error(host),
                    ret |-> is_trusted_host(host, trusted_domains)]
        /\ UNCHANGED <<trusted_domains, session_results, consolidated_file_path,
                     compiled_patterns, status, output>>

\* analyze_single_log_file(log_file_path): reads the file and
\* self.trusted_domains, returns the analysis
AnalyzeSingleLogFile ==
    \E path \in DirectPaths, file \in Files :
        /\ call = NoCall
        /\ status = "running"
        /\ call' = [op |-> "analyze_single_log_file", path |-> path, file |-> file,
                    ret |-> analyze_single_log_file(path, file, trusted_domains)]
        /\ UNCHANGED <<trusted_domains, session_results, consolidated_file_path,
                     compiled_patterns, status, output>>

\* the caller takes the result of the last call; a call that is still at one
\* of its steps (its record holds a pc) has not returned
Return ==
    /\ call # NoCall
    /\ "pc" \notin DOMAIN call
    /\ status = "running"
    /\ call' = NoCall
    /\ UNCHANGED <<trusted_domains, session_results, consolidated_file_path,
                     compiled_patterns, status, output>>

\* fewer than MaxAdded domains were added since the analyzer was constructed
CanAdd ==
    \E arg \in ConstructorLists :
        LET first == init_trusted_domains(arg)
        IN  /\ Len(trusted_domains) < Len(first) + MaxAdded
            /\ Len(trusted_domains) >= Len(first)
            /\ SubSeq(trusted_domains, 1, Len(first)) = first

\* main(): analyzer.trusted_domains.extend(additional_trusted)
AddTrustedDomain ==
    \E d \in AddedDomains :
        /\ CanAdd
        /\ call = NoCall
        /\ status = "running"
        /\ trusted_domains' = trusted_domains \o <<d>>
        /\ UNCHANGED <<session_results, consolidated_file_path, compiled_patterns, call,
                     status, output>>

\* the analyzer after SparkLogAnalyzer(trusted_domains = arg), nothing read yet
InitClassifier ==
    /\ \E arg \in ConstructorLists : trusted_domains = init_trusted_domains(arg)
    /\ session_results = <<>>
    /\ consolidated_file_path = None
    /\ compiled_patterns = init_compiled_patterns
    /\ call = NoCall
    /\ status = "running"
    /\ output = NoFile

NextClassifier == IsTrustedHost \/ Return \/ AddTrustedDomain

\* the classifier called on an analyzer constructed with any list
SpecClassifier == InitClassifier /\ [][NextClassifier]_vars

\* the analyzer after SparkLogAnalyzer(), nothing read yet
InitCalls ==
    /\ trusted_domains = init_trusted_domains(None)
    /\ session_results = <<>>
    /\ consolidated_file_path = None
    /\ compiled_patterns = init_compiled_patterns
    /\ call = NoCall
    /\ status = "running"
    /\ output = NoFile

NextCalls == IsTrustedHost \/ AnalyzeSingleLogFile \/ Return

\* the classifier and the per-file scan called on one analyzer, in any order
SpecCalls == InitCalls /\ [][NextCalls]_vars

\* the hosts classified while the list is being extended
LiveHosts == {"evil.example.com", "sub.storage.azure.com", "localhost", "10.0.0.5"}

LOOP == "is_trusted_host: for trusted_domain in self.trusted_domains"

\* is_trusted_host(host) up to its loop: the host is extracted and rules 1-3
\* are tried; if none decides, the loop over self.trusted_domains starts at
\* its first entry. `read` keeps the list as it stood at that moment.
BeginIsTrustedHost ==
    \E host \in LiveHosts :
        /\ call = NoCall
        /\ status = "running"
        /\ LET host_lower == lower(extract_hostname(host))
           IN  IF host_lower = ""
               THEN call' = [op |-> "is_trusted_host", host |-> host, raised |-> None,
                             ret |-> FALSE, read |-> trusted_domains]
               ELSE IF workspace_rule(host_lower) \/ spark_rule(host_lower)
                          \/ temp_storage_rule(host_lower)
               THEN call' = [op |-> "is_trusted_host", host |-> host, raised |-> None,
                             ret |-> TRUE, read |-> trusted_domains]
               ELSE call' = [op |-> LOOP, pc |-> "loop", host |-> host,
                             host_lower |-> host_lower, i |-> 1, read |-> trusted_domains]
        /\ UNCHANGED <<trusted_domains, session_results, consolidated_file_path,
                       compiled_patterns, status, output>>

\* one turn of the loop: the list iterator gives the entry at its position in
\* the list as it is now, or ends the loop; a matching entry returns True
NextTrustedDomain ==
    /\ call.op = LOOP
    /\ status = "running"
    /\ IF call.i > Len(trusted_domains)
       THEN call' = [op |-> "is_trusted_host", host |-> call.host, raised |-> None,
                     ret |-> FALSE, read |-> call.read]
       ELSE IF domain_matches(call.host_lower, trusted_domains[call.i])
       THEN call' = [op |-> "is_trusted_host", host |-> call.host, raised |-> None,
                     ret |-> TRUE, read |-> call.read]
       ELSE call' = [call EXCEPT !.i = call.i + 1]
    /\ UNCHANGED <<trusted_domains, session_results, consolidated_file_path,
                   compiled_patterns, status, output>>

\* another thread of the caller: trusted_domains.extend([d]) while a
\* classification is in its loop
ExtendTrustedDomains ==
    \E d \in AddedDomains :
        /\ CanAdd
        /\ call.op = LOOP
        /\ status = "running"
        /\ trusted_domains' = trusted_domains \o <<d>>
        /\ UNCHANGED <<session_results, consolidated_file_path, compiled_patterns, call,
                       status, output>>

NextLive == BeginIsTrustedHost \/ NextTrustedDomain \/ ExtendTrustedDomains \/ Return

\* classifications on an analyzer whose list is extended while they run
SpecLive == InitCalls /\ [][NextLive]_vars

\* analyze_consolidated_logs(): raises without a path, exits when the file
\* cannot be read, else appends one session result per session of the file;
\* the call record keeps what was found at the path
AnalyzeConsolidatedLogsOf(found_at_path) ==
    /\ call = NoCall
    /\ status = "running"
    /\ \E consolidated \in found_at_path :
           IF consolidated_file_path = None
           THEN /\ call' = [op |-> "analyze_consolidated_logs", raised |-> "ValueError",
                            consolidated |-> consolidated]
                /\ UNCHANGED <<session_results, status>>
           ELSE IF ~consolidated.found \/ ~consolidated.parsed
           THEN /\ call' = [op |-> "analyze_consolidated_logs", raised |-> "SystemExit",
                            consolidated |-> consolidated]
                /\ status' = "exited"
                /\ UNCHANGED session_results
           ELSE LET log_summaries == get(consolidated.data, "log_summaries", <<>>)
                IN  /\ session_results' =
                           appended(session_results,
                                    session_results_of(log_summaries, trusted_domains))
                    /\ call' = [op |-> "analyze_consolidated_logs", raised |-> None,
                                consolidated |-> consolidated,
                                sessions |-> Len(log_summaries)]
                    /\ UNCHANGED status
    /\ UNCHANGED <<trusted_domains, consolidated_file_path, compiled_patterns, output>>

\* analyze_consolidated_logs() in a run over the files of Disk
AnalyzeConsolidatedLogs == AnalyzeConsolidatedLogsOf(ConsolidatedFiles(Len(session_results)))

\* analyze_consolidated_logs() on a consolidated file that names NamedPaths
AnalyzeNamedFiles == AnalyzeConsolidatedLogsOf(NamedRuns(Len(session_results)))

\* get_sessions_with_external_connections(): reads self.session_results
GetSessionsWithExternalConnections ==
    /\ call = NoCall
    /\ status = "running"
    /\ call' = [op |-> "get_sessions_with_external_connections",
                ret |-> get_sessions_with_external_connections(session_results)]
    /\ UNCHANGED <<trusted_domains, session_results, consolidated_file_path,
                   compiled_patterns, status, output>>

\* print_comprehensive_summary(): takes the four views of self.session_results
\* and prints them, a status line for every session of the outbound view
PrintComprehensiveSummary ==
    /\ call = NoCall
    /\ status = "running"
    /\ call' = [op |-> "print_comprehensive_summary",
                total_sessions |-> Len(session_results),
                sessions_with_connections |->
                    get_sessions_with_outbound_connections(session_results),
                sessions_with_external |->
                    get_sessions_with_external_connections(session_results),
                sessions_with_pip |-> get_sessions_with_pip_installs(session_results),
                logging_status |-> get_logging_status_summary(session_results),
                statuses |->
                    outbound_statuses(get_sessions_with_outbound_connections(session_results))]
    /\ UNCHANGED <<trusted_domains, session_results, consolidated_file_path,
                   compiled_patterns, status, output>>

WRITE_ERROR == "[Errno 13] Permission denied"

\* export_to_json(output_file): builds export_data from three views and
\* self.session_results and dumps it; an error of open() or of the dump is
\* printed and swallowed. `written` is what the file holds afterwards.
ExportToJson ==
    /\ call = NoCall
    /\ status = "running"
    /\ \E writable \in BOOLEAN :
           call' = [op |-> "export_to_json",
                    written |->
                        IF writable
                        THEN [total_sessions |-> Len(session_results),
                              sessions_with_outbound_connections |->
                                  get_sessions_with_outbound_connections(session_results),
                              sessions_with_pip_installs |->
                                  get_sessions_with_pip_installs(session_results),
                              logging_status_summary |->
                                  get_logging_status_summary(session_results),
                              detailed_session_results |-> session_results]
                        ELSE None,
                    printed |-> IF writable THEN None ELSE WRITE_ERROR]
    /\ UNCHANGED <<trusted_domains, session_results, consolidated_file_path,
                   compiled_patterns, status, output>>

\* export_summary_to_text(output_file): takes the external and the outbound
\* view and writes the counts and a status line per session of the outbound
\* view; an error is printed and swallowed
ExportSummaryToText ==
    /\ call = NoCall
    /\ status = "running"
    /\ \E writable \in BOOLEAN :
           call' = [op |-> "export_summary_to_text",
                    written |->
                        IF writable
                        THEN [total_sessions |-> Len(session_results),
                              sessions_with_all |->
                                  Len(get_sessions_with_outbound_connections(session_results)),
                              sessions_with_external |->
                                  get_sessions_with_external_connections(session_results),
                              trusted_domains |-> Len(trusted_domains),
                              statuses |->
                                  outbound_statuses(
                                      get_sessions_with_outbound_connections(session_results))]
                        ELSE None,
                    printed |-> IF writable THEN None ELSE WRITE_ERROR]
    /\ UNCHANGED <<trusted_domains, session_results, consolidated_file_path,
                   compiled_patterns, status, output>>

\* the analyzer main() constructs: SparkLogAnalyzer(consolidated_file), or one
\* constructed without a path
Init ==
    /\ trusted_domains = init_trusted_domains(None)
    /\ session_results = <<>>
    /\ consolidated_file_path \in {None, CONSOLIDATED_PATH}
    /\ compiled_patterns = init_compiled_patterns
    /\ call = NoCall
    /\ status = "running"
    /\ output = NoFile

Next ==
    \/ AddTrustedDomain
    \/ AnalyzeConsolidatedLogs
    \/ GetSessionsWithExternalConnections
    \/ PrintComprehensiveSummary
    \/ ExportToJson
    \/ ExportSummaryToText
    \/ Return

\* a run: domains added, the consolidated file analyzed, the views taken
Spec == Init /\ [][Next]_vars

InitFiles ==
    /\ trusted_domains = init_trusted_domains(None)
    /\ session_results = <<>>
    /\ consolidated_file_path = CONSOLIDATED_PATH
    /\ compiled_patterns = init_compiled_patterns
    /\ call = NoCall
    /\ status = "running"
    /\ output = NoFile

NextFiles == AnalyzeNamedFiles \/ GetSessionsWithExternalConnections \/ Return

\* one analysis of a session whose files have every kind of name
SpecFiles == InitFiles /\ [][NextFiles]_vars

(***************************************************************************)
(* spark_security_pipeline.py: extraction, then analysis in a subprocess    *)
(***************************************************************************)

AuthMethods == {"cli", "interactive", "service_principal"}

\* the --export-summary argument: not given, a bare file name, a path
ExportSummaries == {None, "report.txt", "reports/external.txt"}

\* how extractor.extract_all_logs() ends: it returns the path of the
\* consolidated file, returns None, or raises (authentication, network)
ExtractionOutcomes ==
    {[returned |-> CONSOLIDATED_PATH, raised |-> None],
     [returned |-> None, raised |-> None],
     [returned |-> None, raised |-> "Exception"]}

\* extract_logs_for_workspace(): the path the extractor returned, None when it
\* returned none or raised
extract_logs_for_workspace(outcome) ==
    IF outcome.raised # None THEN None ELSE outcome.returned

\* how subprocess.run() of analyzeLogs.py ends: an exit code, or it raises
SubprocessOutcomes ==
    {[returncode |-> 0, raised |-> None], [returncode |-> 1, raised |-> None],
     [returncode |-> None, raised |-> "OSError"]}

\* the arguments of the analyzeLogs.py command after the interpreter and the
\* script
cmd_args(consolidated_file, external_only, export_summary) ==
    <<consolidated_file>>
    \o (IF external_only THEN <<"--external-only">> ELSE <<>>)
    \o (IF export_summary # None
        THEN <<"--export-summary",
               IF contains(export_summary, "/") THEN export_summary
               ELSE "output/" \o export_summary>>
        ELSE IF external_only
        THEN <<"--export-summary", "output/pipeline_external_report_20240101_000000.txt">>
        ELSE <<>>)

\* analyze_logs_from_file(): False without a file to analyze or when the
\* subprocess raises, else whether analyzeLogs.py exited with code 0
analyze_logs_from_file(consolidated_file, exists, run) ==
    IF consolidated_file = None \/ ~exists THEN FALSE
    ELSE IF run.raised # None THEN FALSE
    ELSE run.returncode = 0

\* run_complete_pipeline going on to the analysis whatever the extraction gave
after_extraction_always_analyze(consolidated_file) == "analyze"

\* run_complete_pipeline after phase 1: it returns False without a
\* consolidated file, else goes on to phase 2
after_extraction(consolidated_file) ==
    IF consolidated_file = None THEN "return False" ELSE "analyze"

\* run_complete_pipeline(workspace_id, auth_method, external_only,
\* export_summary) is called; `phases` lists the phases entered so far
RunCompletePipeline ==
    \E auth_method \in AuthMethods, external_only \in BOOLEAN,
       export_summary \in ExportSummaries :
        /\ call = NoCall
        /\ status = "running"
        /\ call' = [op |-> "run_complete_pipeline", pc |-> "extract",
                    auth_method |-> auth_method, external_only |-> external_only,
                    export_summary |-> export_summary, phases |-> <<>>]
        /\ UNCHANGED <<trusted_domains, session_results, consolidated_file_path,
                       compiled_patterns, status, output>>

\* phase 1, extract_logs_for_workspace(), and the test of its result
ExtractLogsForWorkspace ==
    /\ call.op = "run_complete_pipeline"
    /\ "pc" \in DOMAIN call
    /\ call.pc = "extract"
    /\ \E outcome \in ExtractionOutcomes :
           LET consolidated_file == extract_logs_for_workspace(outcome)
               phases == Append(call.phases, [phase |-> "extraction", outcome |-> outcome])
           IN  IF after_extraction(consolidated_file) = "return False"
               THEN call' = [op |-> "run_complete_pipeline",
                             auth_method |-> call.auth_method,
                             external_only |-> call.external_only,
                             export_summary |-> call.export_summary, phases |-> phases,
                             consolidated_file |-> consolidated_file, ret |-> FALSE]
               ELSE call' = [call EXCEPT !.pc = "analyze", !.phases = phases]
                            @@ [consolidated_file |-> consolidated_file]
    /\ UNCHANGED <<trusted_domains, session_results, consolidated_file_path,
                   compiled_patterns, status, output>>

\* phase 2, analyze_logs_from_file(), and the end of run_complete_pipeline
AnalyzeLogsFromFile ==
    /\ call.op = "run_complete_pipeline"
    /\ "pc" \in DOMAIN call
    /\ call.pc = "analyze"
    /\ \E exists \in BOOLEAN, run \in SubprocessOutcomes :
           call' = [op |-> "run_complete_pipeline",
                    auth_method |-> call.auth_method,
                    external_only |-> call.external_only,
                    export_summary |-> call.export_summary,
                    phases |->
                        Append(call.phases,
                               [phase |-> "analysis", exists |-> exists, run |-> run,
                                cmd_args |->
                                    IF call.consolidated_file # None /\ exists
                                    THEN cmd_args(call.consolidated_file,
                                                  call.external_only, call.export_summary)
                                    ELSE <<>>]),
                    consolidated_file |-> call.consolidated_file,
                    ret |-> analyze_logs_from_file(call.consolidated_file, exists, run)]
    /\ UNCHANGED <<trusted_domains, session_results, consolidated_file_path,
                   compiled_patterns, status, output>>

NextPipeline ==
    RunCompletePipeline \/ ExtractLogsForWorkspace \/ AnalyzeLogsFromFile \/ Return

\* runs of the pipeline
SpecPipeline == InitCalls /\ [][NextPipeline]_vars

(***************************************************************************)
(* livyconn.py: LivyAPIConnector.make_request                              *)
(***************************************************************************)

WORKSPACE_ID == "ws-1"
NOTEBOOK_ID == "nb-1"

\* the base_urls of _build_url
base_urls ==
    [items |-> "https://api.fabric.microsoft.com/v1/workspaces/" \o WORKSPACE_ID
                   \o "/items?type=Notebook",
     notebook_id |-> "https://api.fabric.microsoft.com/v1/workspaces/" \o WORKSPACE_ID
                         \o "/notebooks/" \o NOTEBOOK_ID,
     instances |-> "https://api.fabric.microsoft.com/v1/workspaces/" \o WORKSPACE_ID
                       \o "/notebooks/" \o NOTEBOOK_ID \o "/jobs/instances",
     livySessions |-> "https://api.fabric.microsoft.com/v1/workspaces/" \o WORKSPACE_ID
                          \o "/notebooks/" \o NOTEBOOK_ID \o "/livySessions"]

\* _build_url(): the URL of the endpoint with the continuation token added,
\* None (a ValueError is raised) for an unknown base_type
build_url(base_type, continuation_token) ==
    IF base_type \notin DOMAIN base_urls THEN None
    ELSE IF continuation_token = None THEN base_urls[base_type]
    ELSE base_urls[base_type]
             \o (IF contains(base_urls[base_type], "?") THEN "&" ELSE "?")
             \o "continuationToken=" \o continuation_token

\* the base_type arguments: the four of base_urls and one that is not there
BaseTypes == DOMAIN base_urls \cup {"sessions"}

\* a response body that is a JSON document, what it parses to, and one that is
\* not JSON
JSON_TEXT == "{\"value\": []}"
JSON_BODY == [value |-> <<>>]
NOT_JSON == "<html>"

\* a call that ended without a value: it raised, or it returned None
NO_VALUE == [value |-> None]

\* what requests.get() gives: a response with a status code and a body, or an
\* exception (a timeout, a connection error)
Responses ==
    {[status_code |-> 200, body |-> JSON_TEXT, raised |-> None],
     [status_code |-> 200, body |-> NOT_JSON, raised |-> None]}
    \cup {[status_code |-> code, body |-> NOT_JSON, raised |-> None] :
              code \in {202, 204, 401, 403, 404, 500}}
    \cup {[status_code |-> 0, body |-> NOT_JSON, raised |-> e] :
              e \in {"Timeout", "ConnectionError"}}

\* response.raise_for_status(): an HTTPError for a 4xx or 5xx status, else
\* nothing
raise_for_status(status_code) ==
    IF status_code >= 400 /\ status_code < 600 THEN "HTTPError" ELSE None

\* response.json(): the parsed body, or an error for a body that is not JSON
json_of(response) ==
    IF response.body = JSON_TEXT THEN [ret |-> JSON_BODY, raised |-> None]
    ELSE [ret |-> NO_VALUE, raised |-> "JSONDecodeError"]

\* the record of a make_request call that has ended
request_ended(frame, sent, ret, raised) ==
    [op |-> "make_request", base_type |-> frame.base_type, url |-> frame.url,
     authenticated |-> frame.authenticated, sent |-> sent, ret |-> ret, raised |-> raised]

\* make_request(base_type, workspace_id, item_id, continuation_token=...):
\* the URL is built; `sent` lists the responses of the requests sent so far,
\* `authenticated` counts the calls of _authenticate()
MakeRequest ==
    \E base_type \in BaseTypes, continuation_token \in {None, "page2"} :
        /\ call = NoCall
        /\ status = "running"
        /\ LET frame == [op |-> "make_request", pc |-> "get", base_type |-> base_type,
                         url |-> build_url(base_type, continuation_token),
                         authenticated |-> 0, sent |-> <<>>]
           IN  IF frame.url = None
               THEN call' = request_ended(frame, <<>>, NO_VALUE, "ValueError")
               ELSE call' = frame
        /\ UNCHANGED <<trusted_domains, session_results, consolidated_file_path,
                       compiled_patterns, status, output>>

\* requests.get(url, headers=headers, timeout=30) and the test of the status
\* code: the first request of the call or the one after a 401
Get ==
    /\ call.op = "make_request"
    /\ "pc" \in DOMAIN call
    /\ call.pc = "get"
    /\ \E response \in Responses :
           LET sent == Append(call.sent, response)
           IN  IF response.raised # None
               THEN call' = request_ended(call, sent, NO_VALUE, response.raised)
               ELSE IF response.status_code = 200
               THEN call' = request_ended(call, sent, json_of(response).ret,
                                          json_of(response).raised)
               ELSE IF response.status_code = 401 /\ call.sent = <<>>
               THEN call' = [call EXCEPT !.pc = "authenticate", !.sent = sent]
               ELSE call' = request_ended(call, sent, NO_VALUE,
                                          raise_for_status(response.status_code))
    /\ UNCHANGED <<trusted_domains, session_results, consolidated_file_path,
                   compiled_patterns, status, output>>

\* self._authenticate() after a 401: it succeeds and the request is sent
\* again, or it raises
Authenticate ==
    /\ call.op = "make_request"
    /\ "pc" \in DOMAIN call
    /\ call.pc = "authenticate"
    /\ \E ok \in BOOLEAN :
           IF ok
           THEN call' = [call EXCEPT !.pc = "get", !.authenticated = call.authenticated + 1]
           ELSE call' = request_ended([call EXCEPT !.authenticated = call.authenticated + 1],
                                      call.sent, NO_VALUE, "AuthenticationError")
    /\ UNCHANGED <<trusted_domains, session_results, consolidated_file_path,
                   compiled_patterns, status, output>>

NextRequests == MakeRequest \/ Get \/ Authenticate \/ Return

\* calls of make_request
SpecRequests == InitCalls /\ [][NextRequests]_vars

(***************************************************************************)
(* getLivy.py and livyconn.py: the extraction that writes the consolidated  *)
(* file                                                                    *)
(***************************************************************************)

\* how many notebooks the workspace lists at most
MaxNotebooks == 2

\* how open(self.consolidated_file, 'w') and json.dump() end: the file is
\* written, open() fails and the file stays as it was, the dump stops half way
WriteOutcomes == {"written", "not opened", "truncated"}

\* the structure append_to_consolidated_file starts from when there is no file
initial_structure ==
    [metadata |-> [workspace_id |-> WORKSPACE_ID, workspace_name |-> "unknown",
                   total_sessions_processed |-> 0],
     log_summaries |-> <<>>]

\* data after the summary was appended and the count set
with_summary(data, log_summary) ==
    [data EXCEPT !.log_summaries = Append(@, log_summary),
                 !.metadata.total_sessions_processed = Len(data.log_summaries) + 1]

\* what is at the path after append_to_consolidated_file(log_summary): every
\* error (a file that does not parse, a failed open or dump) is printed and
\* swallowed
append_to_consolidated_file(file, log_summary, write) ==
    IF file.found /\ ~file.parsed THEN file
    ELSE IF write = "not opened" THEN file
    ELSE IF write = "truncated" THEN Truncated
    ELSE Document(with_summary(IF file.found THEN file.data ELSE initial_structure,
                               log_summary))

\* finalize_consolidated_file(): the file with the final statistics and the
\* path, or None when there is no file or an error was swallowed
finalize_consolidated_file(file, total, with_sessions, workspace_name, write) ==
    IF ~file.found \/ ~file.parsed THEN [file |-> file, ret |-> None]
    ELSE IF write = "not opened" THEN [file |-> file, ret |-> None]
    ELSE IF write = "truncated" THEN [file |-> Truncated, ret |-> None]
    ELSE [file |->
              Document([file.data EXCEPT
                            !.metadata =
                                [total_notebooks_processed |-> total,
                                 notebooks_with_sessions |-> with_sessions,
                                 workspace_name |-> workspace_name,
                                 workspace_id |-> @.workspace_id,
                                 total_sessions_processed |-> @.total_sessions_processed]]),
          ret |-> CONSOLIDATED_PATH]

\* the three logs of a session in the order they are requested, and the file
\* each is saved as
SessionLogs == <<"livy_logs.txt", "driver_stdout.log", "driver_stderr.log">>

\* logs_downloaded: the files of the requests answered 200, in order
logs_downloaded(temp_dir, status_codes) ==
    SelectSeq([k \in 1..Len(SessionLogs) |->
                   IF status_codes[k] = 200 THEN temp_dir \o "/" \o SessionLogs[k] ELSE ""],
              LAMBDA path : path # "")

\* the summary download_logs_to_temp writes for a session
summary_of(livy_id, workspace_name, status_codes) ==
    [livy_id |-> livy_id, notebook_name |-> "etl_notebook", workspace_name |-> workspace_name,
     downloaded_files |-> logs_downloaded("/tmp/spark_logs_" \o livy_id \o "_k2", status_codes)]

\* how get_notebooks() ends in extract_all_logs: make_request raises, returns
\* nothing with a 'value', or returns a listing of notebooks
GetNotebooksOutcomes ==
    {[raised |-> "HTTPError", found |-> FALSE, notebooks |-> 0],
     [raised |-> None, found |-> FALSE, notebooks |-> 0]}
    \cup {[raised |-> None, found |-> TRUE, notebooks |-> n] : n \in 0..MaxNotebooks}

\* how a download ends: get_headers() raises before the try block, a request
\* or a file write raises inside it, or the three requests are answered
DownloadOutcomes ==
    {[fails |-> at, status_codes |-> <<>>, write |-> "written"] :
         at \in {"get_headers", "requests.get"}}
    \cup {[fails |-> None, status_codes |-> codes, write |-> write] :
              codes \in [1..3 -> {200, 404}], write \in WriteOutcomes}

\* the record of an extract_all_logs call that has ended
extraction_ended(frame, ret, raised) ==
    [op |-> "extract_all_logs", workspace_name |-> frame.workspace_name,
     notebooks |-> frame.notebooks, notebooks_with_sessions |-> frame.notebooks_with_sessions,
     total_sessions_processed |-> frame.total_sessions_processed, ret |-> ret,
     raised |-> raised]

\* the loop over the sessions of a notebook after one of them: the next
\* session, or the next notebook after the last
after_session(frame) ==
    IF frame.session_idx + 1 = frame.sessions
    THEN [frame EXCEPT !.pc = "notebook", !.notebook_idx = @ + 1, !.session_idx = 0,
                       !.sessions = 0, !.seen = @ + 1]
    ELSE [frame EXCEPT !.session_idx = @ + 1, !.seen = @ + 1]

\* extract_all_logs() of a new extractor, whose connector has a new
\* consolidated file path with nothing behind it: the workspaces and the
\* notebooks are listed
ExtractAllLogs ==
    /\ call = NoCall
    /\ status = "running"
    /\ \E workspace_name \in {"unknown", "analytics"}, listing \in GetNotebooksOutcomes :
           LET frame == [op |-> "extract_all_logs", pc |-> "notebook",
                         workspace_name |-> workspace_name, notebooks |-> listing.notebooks,
                         notebook_idx |-> 0, sessions |-> 0, session_idx |-> 0, seen |-> 0,
                         notebooks_with_sessions |-> 0, total_sessions_processed |-> 0]
           IN  IF listing.raised # None
               THEN call' = extraction_ended(frame, None, listing.raised)
               ELSE IF ~listing.found THEN call' = extraction_ended(frame, None, None)
               ELSE call' = frame
    /\ output' = NoFile
    /\ UNCHANGED <<trusted_domains, session_results, consolidated_file_path,
                   compiled_patterns, status>>

\* the next notebook of the loop: get_livy_sessions() raises or gives no
\* session with both ids, and the loop goes on, or it gives some sessions
GetLivySessions ==
    /\ call.op = "extract_all_logs"
    /\ "pc" \in DOMAIN call
    /\ call.pc = "notebook"
    /\ call.notebook_idx < call.notebooks
    /\ \E raised \in {None, "HTTPError"}, sessions \in 0..MaxSessions :
           IF raised # None \/ sessions = 0
           THEN call' = [call EXCEPT !.notebook_idx = @ + 1]
           ELSE call' = [call EXCEPT !.pc = "session", !.sessions = sessions,
                                     !.session_idx = 0,
                                     !.notebooks_with_sessions = @ + 1]
    /\ UNCHANGED <<trusted_domains, session_results, consolidated_file_path,
                   compiled_patterns, status, output>>

\* download_logs_to_temp() for the next session and the count of its result:
\* an error before the try block ends the notebook, one inside it gives None,
\* else the summary is appended to the consolidated file and a result returned
DownloadLogsToTemp ==
    /\ call.op = "extract_all_logs"
    /\ "pc" \in DOMAIN call
    /\ call.pc = "session"
    /\ \E outcome \in DownloadOutcomes :
           IF outcome.fails = "get_headers"
           THEN /\ call' = [call EXCEPT !.pc = "notebook", !.notebook_idx = @ + 1,
                                        !.session_idx = 0, !.sessions = 0, !.seen = @ + 1]
                /\ UNCHANGED output
           ELSE IF outcome.fails = "requests.get"
           THEN /\ call' = after_session(call)
                /\ UNCHANGED output
           ELSE /\ output' =
                       append_to_consolidated_file(
                           output,
                           summary_of("livy-" \o ToString(call.seen + 1), call.workspace_name,
                                      outcome.status_codes),
                           outcome.write)
                /\ call' = after_session([call EXCEPT !.total_sessions_processed = @ + 1])
    /\ UNCHANGED <<trusted_domains, session_results, consolidated_file_path,
                   compiled_patterns, status>>

\* after the last notebook: finalize_consolidated_file() and the return of its
\* result
FinalizeConsolidatedFile ==
    /\ call.op = "extract_all_logs"
    /\ "pc" \in DOMAIN call
    /\ call.pc = "notebook"
    /\ call.notebook_idx = call.notebooks
    /\ \E write \in WriteOutcomes :
           LET final == finalize_consolidated_file(output, call.notebooks,
                                                   call.notebooks_with_sessions,
                                                   call.workspace_name, write)
           IN  /\ output' = final.file
               /\ call' = extraction_ended(call, final.ret, None)
    /\ UNCHANGED <<trusted_domains, session_results, consolidated_file_path,
                   compiled_patterns, status>>

NextExtract ==
    \/ ExtractAllLogs
    \/ GetLivySessions
    \/ DownloadLogsToTemp
    \/ FinalizeConsolidatedFile
    \/ Return

\* extractions of the logs of a workspace
SpecExtract == InitCalls /\ [][NextExtract]_vars

(***************************************************************************)
(* Properties of the classifier (SpecClassifier), of the per-file scan      *)
(* (SpecCalls) and of the views of a run (Spec)                            *)
(***************************************************************************)

\* the elements of a sequence
Range(q) == {q[i] : i \in 1..Len(q)}

IsTrustedHostCall == call.op = "is_trusted_host"
AnalyzeCall == call.op = "analyze_single_log_file"

\* the claim's own reading of "lowercase alphanumeric"
AllLowerAlnum(s) == \A i \in 1..Len(s) : At(s, i) \in CharSet(LOWERCASE \o DIGITS)

\* the host, or the host with a trailing .dfs.core.windows.net stripped
BaseOf(host) ==
    IF endswith(host, DFS_SUFFIX) THEN slice(host, 1, Len(host) - Len(DFS_SUFFIX)) ELSE host

ExcludedWords == {"dev", "prod", "test", "msft", "east", "west", "central", "stage", "stag"}

HasExcludedWord(s) == \E w \in ExcludedWords : contains(s, w)

\* C1: after analyze_single_log_file, every record of connections is in exactly
\* one of trusted_connections and external_connections: the two lists share no
\* record and len(connections) = len(trusted) + len(external).
C1_ConnectionsPartitioned ==
    AnalyzeCall =>
        LET r == call.ret
        IN  /\ Len(r.connections) = Len(r.trusted_connections) + Len(r.external_connections)
            /\ Range(r.trusted_connections) \cap Range(r.external_connections) = {}
            /\ Range(r.connections) =
                   Range(r.trusted_connections) \cup Range(r.external_connections)

\* an analysis that filed records on both sides
C1_Witness ==
    /\ AnalyzeCall
    /\ call.ret.trusted_connections # <<>>
    /\ call.ret.external_connections # <<>>

\* a scheme-prefixed ABFS token with a UUID container: abfss://<uuid>@<account>.dfs...
IsUuidAbfsToken(host) ==
    LET head == "abfss://" \o WORKSPACE_UUID \o "@"
        account == slice(host, Len(head) + 1, Len(host) - Len(DFS_SUFFIX))
    IN  /\ startswith(host, head)
        /\ endswith(host, DFS_SUFFIX)
        /\ account # ""
        /\ AllLowerAlnum(account)

\* C2: is_trusted_host on abfss://<uuid>@<account>.dfs.core.windows.net with the
\* default trusted list returns trusted, for every account name.
C2_UuidAbfsTokenTrusted ==
    (IsTrustedHostCall /\ trusted_domains = DEFAULT_TRUSTED_DOMAINS
        /\ IsUuidAbfsToken(call.host)) => call.ret

\* whether a record of the analysis was filed as trusted
FiledTrusted(r, c) == c \in Range(r.trusted_connections)

\* C3: within one analysis, with the trusted-domain list unchanged, two
\* connection records with the same host are both filed trusted or both filed
\* external, whatever lines they came from.
C3_SameHostSameFiling ==
    AnalyzeCall =>
        \A a, b \in Range(call.ret.connections) :
            a.host = b.host => (FiledTrusted(call.ret, a) <=> FiledTrusted(call.ret, b))

\* C4: a hostname whose base is 20, 21 or 22 lowercase alphanumerics with no
\* excluded word is classified trusted, whatever the trusted-domain list.
C4_TempStorageTrusted ==
    (IsTrustedHostCall
        /\ Len(BaseOf(call.host)) \in 20..22
        /\ AllLowerAlnum(BaseOf(call.host))
        /\ ~HasExcludedWord(BaseOf(call.host))) => call.ret

\* a 20-character name with the storage suffix, trusted under a list that does
\* not hold it
C4_Witness ==
    /\ IsTrustedHostCall
    /\ call.host = NameEnding(MIN_TEMP_STORAGE_LEN, "") \o DFS_SUFFIX
    /\ trusted_domains = <<"Example.COM", "corp-">>
    /\ call.ret

\* the cases C5 speaks of: all lowercase alphanumeric, and either 20-22 long with
\* an excluded word or 19 long
C5_Case(host) ==
    /\ AllLowerAlnum(host)
    /\ \/ (Len(host) \in 20..22 /\ HasExcludedWord(host))
       \/ Len(host) = 19

\* C5 as stated: under the default list such a hostname is classified external.
C5_ExternalOutsideWindow ==
    (IsTrustedHostCall /\ trusted_domains = DEFAULT_TRUSTED_DOMAINS /\ C5_Case(call.host))
        => ~call.ret

\* spark, one or more digits, triprodeus
SparkShaped(host) ==
    /\ Len(host) > Len("spark") + Len("triprodeus")
    /\ slice(host, 1, 5) = "spark"
    /\ slice(host, Len(host) - 9, Len(host)) = "triprodeus"
    /\ \A i \in 6..(Len(host) - 10) : At(host, i) \in CharSet(DIGITS)

\* C5 amended: under the default list such a hostname is classified external
\* unless it matches ^spark\d+triprodeus$ or ends with the entry "localhost".
C5_ExternalUnlessSparkOrLocalhost ==
    (IsTrustedHostCall /\ trusted_domains = DEFAULT_TRUSTED_DOMAINS /\ C5_Case(call.host)
        /\ ~SparkShaped(call.host)
        /\ ~endswith(call.host, "localhost"))
        => ~call.ret

\* a 20-character name with "prod" in it, found external under the default list
C5_Witness ==
    /\ IsTrustedHostCall
    /\ trusted_domains = DEFAULT_TRUSTED_DOMAINS
    /\ call.host = NameStarting(MIN_TEMP_STORAGE_LEN, "prod")
    /\ ~call.ret

\* the lower-cased entries of the list, as a set: the order does not count
EntriesOf(domains) == {lower(domains[i]) : i \in 1..Len(domains)}

\* C6: for a host that rules 1-3 do not decide, is_trusted_host returns trusted
\* exactly if some entry e of the list, compared case-insensitively, equals the
\* host, is a suffix of it, or ends with "-" and is a prefix of it; every entry
\* of the default list is trusted and evil.example.com is external under it.
C6_DomainRuleDecides ==
    IsTrustedHostCall =>
        LET h == lower(extract_hostname(call.host))
        IN  /\ (h # "" /\ ~workspace_rule(h) /\ ~spark_rule(h) /\ ~temp_storage_rule(h))
                => (call.ret <=>
                      \E e \in EntriesOf(trusted_domains) :
                          \/ h = e
                          \/ endswith(h, e)
                          \/ (endswith(e, "-") /\ startswith(h, e)))
            /\ (trusted_domains = DEFAULT_TRUSTED_DOMAINS
                   /\ call.host \in Range(DEFAULT_TRUSTED_DOMAINS)) => call.ret
            /\ (trusted_domains = DEFAULT_TRUSTED_DOMAINS
                   /\ call.host = "evil.example.com") => ~call.ret

\* a host trusted through the upper-case entry Example.COM
C6_Witness ==
    /\ IsTrustedHostCall
    /\ call.host = "evil.example.com"
    /\ trusted_domains = <<"Example.COM", "corp-">>
    /\ call.ret

\* C7: is_trusted_host and analyze_single_log_file only read shared state: a
\* call of either leaves the trusted-domain list, the compiled patterns and
\* session_results as they were.
C7_CallsOnlyRead ==
    [][(call.op = "none" /\ call'.op \in {"is_trusted_host", "analyze_single_log_file"})
          => UNCHANGED <<trusted_domains, compiled_patterns, session_results>>]_vars

\* a call that found its host trusted and left the list as constructed
C7_Witness ==
    /\ IsTrustedHostCall
    /\ call.ret
    /\ trusted_domains = DEFAULT_TRUSTED_DOMAINS

ESTABLISHING_LINE == "Establishing connection to 10.0.0.5:9092 for kafka\n"

\* C8: analyzing a log with the line "Establishing connection to 10.0.0.5:9092
\* for kafka" produces a connection record with host 10.0.0.5 and port 9092.
C8_EstablishingLineExtracted ==
    (AnalyzeCall /\ call.file.error_at = 0) =>
        \A n \in 1..Len(call.file.lines) :
            call.file.lines[n] = ESTABLISHING_LINE =>
                \E c \in Range(call.ret.connections) :
                    c.line_number = n /\ c.host = "10.0.0.5" /\ c.port = "9092"

\* which patterns of each catalog match each line, found by searching each
\* pattern on its own
MatchTable ==
    [line \in LogLines |->
        [connections |-> {CONNECTION_PATTERNS[i].pattern : i \in
                             {j \in 1..Len(CONNECTION_PATTERNS) :
                                 search(CONNECTION_PATTERNS[j], line).ok}},
         pip_installs |-> {PIP_PATTERNS[i].pattern : i \in
                             {j \in 1..Len(PIP_PATTERNS) : search(PIP_PATTERNS[j], line).ok}},
         logging_config |-> {LOGGING_PATTERNS[i].pattern : i \in
                             {j \in 1..Len(LOGGING_PATTERNS) :
                                 search(LOGGING_PATTERNS[j], line).ok}}]]

\* the lines the scan got through before an error, if any
LinesRead(file) == IF file.error_at = 0 THEN Len(file.lines) ELSE file.error_at - 1

\* the records of a list are exactly one per (line read, matching pattern)
OnePerMatch(records, matching(_)) ==
    /\ \A i \in 1..Len(records) :
           /\ records[i].line_number \in 1..LinesRead(call.file)
           /\ records[i].pattern_matched \in matching(records[i].line_number)
    /\ \A n \in 1..LinesRead(call.file) : \A p \in matching(n) :
           Cardinality({i \in 1..Len(records) :
               records[i].line_number = n /\ records[i].pattern_matched = p}) = 1

\* C9: for every line and every pattern, the scan emits exactly one record if
\* the pattern matches the line and none otherwise; a line matched by k
\* connection patterns contributes k records, and likewise for the
\* package-install and the logging patterns.
C9_OneRecordPerLineAndPattern ==
    AnalyzeCall =>
        /\ OnePerMatch(call.ret.connections,
                       LAMBDA n : MatchTable[call.file.lines[n]].connections)
        /\ OnePerMatch(call.ret.pip_installs,
                       LAMBDA n : MatchTable[call.file.lines[n]].pip_installs)
        /\ OnePerMatch(call.ret.logging_config,
                       LAMBDA n : MatchTable[call.file.lines[n]].logging_config)

\* a line matched by three connection patterns gave three records, and a line
\* matched by two package-install patterns gave two
C9_Witness ==
    /\ AnalyzeCall
    /\ \E n \in 1..Len(call.file.lines) :
           Cardinality({i \in 1..Len(call.ret.connections) :
               call.ret.connections[i].line_number = n}) = 3
    /\ \E n \in 1..Len(call.file.lines) :
           Cardinality({i \in 1..Len(call.ret.pip_installs) :
               call.ret.pip_installs[i].line_number = n}) = 2

GetExternalCall == call.op = "get_sessions_with_external_connections"

\* the records of one kind a session holds, over its log types, one by one
RecordsOf(session, kind) ==
    UNION {{<<t, i>> : i \in 1..Len(session.log_analyses[t][kind])} :
              t \in DOMAIN session.log_analyses}

\* the positions in session_results of the sessions with an external connection
ExternalSessions ==
    {i \in 1..Len(session_results) :
        RecordsOf(session_results[i], "external_connections") # {}}

\* the k-th smallest member of a set of numbers
Kth(S, k) == CHOOSE i \in S : Cardinality({j \in S : j < i}) = k - 1

\* C10: get_sessions_with_external_connections returns, in run order, exactly
\* the sessions with at least one external connection in some log type; each
\* total_external_connections and total_trusted_connections is the sum of the
\* lengths of the external and trusted lists over the session's log types; one
\* session with one stderr log holding one trusted and one external host gives
\* one session with 1 and 1.
C10_ExternalSessionsView ==
    GetExternalCall =>
        /\ Len(call.ret) = Cardinality(ExternalSessions)
        /\ \A k \in 1..Len(call.ret) :
               LET session == session_results[Kth(ExternalSessions, k)]
               IN  /\ call.ret[k].livy_id = session.session_info.livy_id
                   /\ call.ret[k].total_external_connections =
                          Cardinality(RecordsOf(session, "external_connections"))
                   /\ call.ret[k].total_trusted_connections =
                          Cardinality(RecordsOf(session, "trusted_connections"))
        /\ (/\ Len(session_results) = 1
            /\ session_results[1].log_analyses =
                   [stderr |-> analyze_single_log_file(STDERR_LOG, Disk[STDERR_LOG],
                                                       DEFAULT_TRUSTED_DOMAINS)])
           => (/\ Len(call.ret) = 1
               /\ call.ret[1].total_external_connections = 1
               /\ call.ret[1].total_trusted_connections = 1)

\* two sessions, the first with trusted connections only, the second with
\* external connections in two log types: the view holds the second alone
C10_Witness ==
    /\ GetExternalCall
    /\ Len(session_results) = 2
    /\ DOMAIN session_results[1].log_analyses = {"livy"}
    /\ DOMAIN session_results[2].log_analyses = {"livy", "stderr"}
    /\ Len(call.ret) = 1
    /\ call.ret[1].livy_id = "livy-2"
    /\ call.ret[1].total_external_connections = 1
    /\ call.ret[1].total_trusted_connections = 2


SummaryCall == call.op = "print_comprehensive_summary"

\* the positions in a view of the sessions with this livy_id
PositionsOf(view, livy_id) == {k \in 1..Len(view) : view[k].livy_id = livy_id}

\* the session of session_results a summary of a view was made from
SessionOf(summary) ==
    session_results[CHOOSE i \in 1..Len(session_results) :
                        session_results[i].session_info["livy_id"] = summary.livy_id]

\* C11: after an analysis run, every session of get_sessions_with_external_connections
\* is also in get_sessions_with_outbound_connections, once, with the same
\* external and trusted totals; a session of the outbound view is tagged
\* trusted-only exactly when it holds no external connection and has-external
\* otherwise.
C11_OutboundCoversExternal ==
    SummaryCall =>
        /\ \A e \in 1..Len(call.sessions_with_external) :
               LET ext == call.sessions_with_external[e]
                   at == PositionsOf(call.sessions_with_connections, ext.livy_id)
               IN  /\ Cardinality(at) = 1
                   /\ \A k \in at :
                          /\ call.sessions_with_connections[k].total_external_connections
                                 = ext.total_external_connections
                          /\ call.sessions_with_connections[k].total_trusted_connections
                                 = ext.total_trusted_connections
        /\ Len(call.statuses) = Len(call.sessions_with_connections)
        /\ \A k \in 1..Len(call.sessions_with_connections) :
               LET out == call.sessions_with_connections[k]
               IN  /\ call.statuses[k] \in {TRUSTED_ONLY, HAS_EXTERNAL}
                   /\ call.statuses[k] = TRUSTED_ONLY
                          <=> out.total_external_connections = 0
                   /\ out.total_external_connections
                          = Cardinality(RecordsOf(SessionOf(out), "external_connections"))

\* a run with a trusted-only session and a session with an external connection,
\* both in the outbound view, one of them in the external view
C11_Witness ==
    /\ SummaryCall
    /\ Len(call.sessions_with_external) = 1
    /\ Len(call.sessions_with_connections) = 2
    /\ call.statuses = <<TRUSTED_ONLY, HAS_EXTERNAL>>

AnalyzeRunCall == call.op = "analyze_consolidated_logs" /\ call.raised = None

\* the sessions the consolidated file of the last run held
RunSummaries == get(call.consolidated.data, "log_summaries", <<>>)

\* the session result the last run appended for its i-th session
RunResult(i) == session_results[Len(session_results) - Len(RunSummaries) + i]

\* whether no file after the j-th of files has the log type of the j-th
LastOfType(files, j) ==
    \A k \in (j + 1)..Len(files) : log_type(files[k]) # log_type(files[j])

\* all five match lists of an analysis are empty
NoMatches(analysis) ==
    /\ analysis.connections = <<>>
    /\ analysis.external_connections = <<>>
    /\ analysis.trusted_connections = <<>>
    /\ analysis.pip_installs = <<>>
    /\ analysis.logging_config = <<>>

\* C12: for a path with no file, analyze_single_log_file returns
\* file_exists = false, file_size 0, every match list empty and no error; the
\* files after it and the sessions after it are still analysed.
C12_MissingFileSkipped ==
    AnalyzeRunCall =>
        /\ Len(session_results) >= Len(RunSummaries)
        /\ \A i \in 1..Len(RunSummaries) :
               LET files == RunSummaries[i].downloaded_files
                   analyses == RunResult(i).log_analyses
               IN  /\ RunResult(i).session_info["livy_id"] = RunSummaries[i].livy_id
                   /\ \A j \in 1..Len(files) :
                          /\ log_type(files[j]) \in DOMAIN analyses
                          /\ LastOfType(files, j) =>
                                 /\ analyses[log_type(files[j])].log_file = files[j]
                                 /\ analyses[log_type(files[j])].file_exists
                                        = Disk[files[j]].exists
                                 /\ ~Disk[files[j]].exists =>
                                        /\ analyses[log_type(files[j])].file_size = 0
                                        /\ NoMatches(analyses[log_type(files[j])])
                                        /\ analyses[log_type(files[j])].error = None
                          /\ (Disk[files[j]].exists /\ LastOfType(files, j)) =>
                                 /\ analyses[log_type(files[j])].file_size
                                        = getsize(Disk[files[j]].lines)
                                 /\ analyses[log_type(files[j])].file_size > 0

\* a run of two sessions, the first with a missing file followed by a file
\* with package installs, both analysed
C12_Witness ==
    /\ AnalyzeRunCall
    /\ Len(RunSummaries) = 2
    /\ RunSummaries[1].downloaded_files = <<DRIVER_LOG, STDOUT_LOG>>
    /\ ~RunResult(1).log_analyses["unknown"].file_exists
    /\ RunResult(1).log_analyses["stdout"].pip_installs # <<>>
    /\ RunSummaries[2].downloaded_files = <<STDERR_LOG>>
    /\ RunResult(2).log_analyses["stderr"].connections # <<>>

\* C13: for a file that exists but raises an error while being read, at any
\* point of the read, analyze_single_log_file returns a result whose match
\* lists are all empty and which carries the error message.
C13_ReadErrorGivesEmptyResult ==
    (AnalyzeCall /\ call.file.exists /\ call.file.error_at # 0) =>
        /\ NoMatches(call.ret)
        /\ call.ret.error = READ_ERROR

\* the consolidated file of the last run was there but did not parse, or
\* parsed to a document without 'log_summaries'
MalformedInput ==
    /\ call.consolidated.found
    /\ \/ ~call.consolidated.parsed
       \/ "log_summaries" \notin DOMAIN call.consolidated.data

\* C14: when the consolidated input is unparsable JSON or a JSON document
\* without a log_summaries key, analyze_consolidated_logs aborts the whole run
\* with an error surfaced to the caller, and nothing more is produced.
C14_MalformedInputAborts ==
    (call.op = "analyze_consolidated_logs" /\ consolidated_file_path # None
        /\ MalformedInput) =>
        /\ call.raised # None
        /\ status = "exited"

\* C15: _extract_hostname and is_trusted_host return a value for every string,
\* empty, punctuation-only and malformed-URL tokens included, and never raise;
\* a token that normalizes to the empty string is classified external.
C15_ClassifierTotal ==
    IsTrustedHostCall =>
        /\ extract_hostname_error(call.host) = None
        /\ extract_hostname(call.host) # None
        /\ call.raised = None
        /\ call.ret \in BOOLEAN
        /\ extract_hostname(call.host) = "" => ~call.ret

\* a URL whose netloc has an opening bracket only: urlparse raises, the token
\* is cut by hand and found external
C15_Witness ==
    /\ IsTrustedHostCall
    /\ call.host = "http://[::1"
    /\ urlsplit(call.host).raises
    /\ extract_hostname(call.host) = "http"
    /\ call.raised = None
    /\ ~call.ret

\* the positions in session_results of the sessions with a logging-toggle match
LoggingSessions ==
    {i \in 1..Len(session_results) : RecordsOf(session_results[i], "logging_config") # {}}

\* whether a raw line holds 'disable', 'off' or 'false' in any case
HasDisablingWord(raw_line) ==
    \E word \in {"disable", "off", "false"} : contains(lower(raw_line), word)

\* the positions in session_results of the sessions where the raw line of some
\* toggle match holds a disabling word
DisabledSessions ==
    {i \in 1..Len(session_results) :
        \E r \in RecordsOf(session_results[i], "logging_config") :
            HasDisablingWord(session_results[i].log_analyses[r[1]].logging_config[r[2]].raw_line)}

\* C16: get_logging_status_summary counts a session in
\* sessions_with_logging_config iff some log type of it has a logging-toggle
\* match, and in sessions_with_disabled_logs iff the raw line of some toggle
\* match holds 'disable', 'off' or 'false' in any case; so disabled <= with
\* config <= number of sessions, and details has one entry per session with
\* config, in run order.
C16_LoggingSummaryCounts ==
    SummaryCall =>
        LET summary == call.logging_status
        IN  /\ summary.sessions_with_logging_config = Cardinality(LoggingSessions)
            /\ summary.sessions_with_disabled_logs = Cardinality(DisabledSessions)
            /\ summary.sessions_with_disabled_logs <= summary.sessions_with_logging_config
            /\ summary.sessions_with_logging_config <= Len(session_results)
            /\ Len(summary.details) = summary.sessions_with_logging_config
            /\ \A k \in 1..Len(summary.details) :
                   LET i == Kth(LoggingSessions, k)
                   IN  /\ summary.details[k].livy_id
                              = session_results[i].session_info["livy_id"]
                       /\ summary.details[k].has_disabled_logs <=> i \in DisabledSessions

\* two sessions with logging toggles, one of them with a disabling line
C16_Witness ==
    /\ SummaryCall
    /\ Len(session_results) = 2
    /\ call.logging_status.sessions_with_logging_config = 2
    /\ call.logging_status.sessions_with_disabled_logs = 1
    /\ Len(call.logging_status.details) = 2

\* the positions in session_results of the sessions with a package-install match
PipSessions ==
    {i \in 1..Len(session_results) : RecordsOf(session_results[i], "pip_installs") # {}}

\* C17: get_sessions_with_pip_installs returns, in run order, exactly the
\* sessions with at least one package-install match, and each
\* total_pip_installs is the number of package-install records summed over the
\* session's log types.
C17_PipSessionsView ==
    SummaryCall =>
        /\ Len(call.sessions_with_pip) = Cardinality(PipSessions)
        /\ \A k \in 1..Len(call.sessions_with_pip) :
               LET session == session_results[Kth(PipSessions, k)]
               IN  /\ call.sessions_with_pip[k].livy_id = session.session_info["livy_id"]
                   /\ call.sessions_with_pip[k].total_pip_installs
                          = Cardinality(RecordsOf(session, "pip_installs"))
                   /\ call.sessions_with_pip[k].total_pip_installs > 0

\* a run whose second session alone installs a package, on a line two install
\* patterns match
C17_Witness ==
    /\ SummaryCall
    /\ Len(session_results) = 2
    /\ Len(call.sessions_with_pip) = 1
    /\ call.sessions_with_pip[1].livy_id = "livy-2"
    /\ call.sessions_with_pip[1].total_pip_installs = 2

\* C18: however the analyzer is constructed (no list, an empty list or a caller
\* list) and whatever is added afterwards, the trusted-domain list in effect
\* holds every entry of the default list.
C18_DefaultsAlwaysTrusted ==
    \A i \in 1..Len(DEFAULT_TRUSTED_DOMAINS) :
        DEFAULT_TRUSTED_DOMAINS[i] \in Range(trusted_domains)

\* whether host is the storage account of an ABFS URL with the workspace UUID
\* as its container somewhere on the line
IsAbfsAccountOn(host, raw_line) ==
    /\ host # ""
    /\ \E scheme \in {"abfs://", "abfss://"} :
           contains(lower(raw_line),
                    scheme \o WORKSPACE_UUID \o "@" \o lower(host) \o DFS_SUFFIX)

\* C19: a connection record is filed in trusted_connections only if
\* is_trusted_host accepts its host or its host is the storage account of a
\* UUID-container ABFS URL on its line; any other endpoint on such a line goes
\* to external_connections when the classifier rejects it.
C19_TrustedOnlyByClassifierOrAbfsAccount ==
    AnalyzeCall =>
        \A c \in Range(call.ret.trusted_connections) :
            \/ is_trusted_host(c.host, trusted_domains)
            \/ IsAbfsAccountOn(c.host, c.raw_line)

\* the container of a token with "@": what precedes its last "@", without an
\* abfs:// or abfss:// prefix
ContainerBeforeLastAt(h) ==
    remove(remove(slice(h, 1, rfind(h, "@") - 1), "abfss://"), "abfs://")

\* C20: the workspace-temp-storage rule splits a token at its last "@" and
\* trusts it only if all that precedes that "@" (minus an abfs:// or abfss://
\* prefix) is a UUID: a token <uuid>@x@acct.dfs.core.windows.net that no other
\* rule trusts is classified external.
C20_ContainerBeforeLastAt ==
    IsTrustedHostCall =>
        LET h == lower(extract_hostname(call.host))
        IN  (/\ contains(h, "@")
             /\ contains(h, DFS_SUFFIX)
             /\ ~is_uuid(ContainerBeforeLastAt(h))
             /\ ~spark_rule(h)
             /\ ~temp_storage_rule(h)
             /\ ~domain_rule(h, trusted_domains)) => ~call.ret

\* 20-22 lowercase alphanumerics with no excluded word
TempStorageShaped(s) ==
    /\ Len(s) \in 20..22
    /\ AllLowerAlnum(s)
    /\ ~HasExcludedWord(s)

CleanupChars == {" ", ",", "(", ")", "\"", "'", "."}

C23_SnapshotConsistent ==
    IsTrustedHostCall => call.ret = is_trusted_host(call.host, call.read)

\* p is q or q with elements added at its end
IsPrefix(p, q) == Len(p) <= Len(q) /\ SubSeq(q, 1, Len(p)) = p

ReadingOps ==
    {"get_sessions_with_external_connections", "print_comprehensive_summary",
     "export_to_json", "export_summary_to_text"}

\* C24: session_results is append-only: an analyze_consolidated_logs call adds
\* one record per session of its input, in input order, after the records
\* already there, which stay as they were; the views and the two exports
\* leave session_results as it is, so that a view taken again after one has
\* returned gives the result that one gave.
C24_AppendOnly ==
    [][/\ IsPrefix(session_results, session_results')
       /\ (call'.op = "analyze_consolidated_logs" /\ call'.raised = None) =>
              LET log_summaries == get(call'.consolidated.data, "log_summaries", <<>>)
                  held == Len(session_results)
              IN  /\ Len(session_results') = held + Len(log_summaries)
                  /\ \A i \in 1..Len(log_summaries) :
                         session_results'[held + i].session_info["livy_id"]
                             = log_summaries[i].livy_id
       /\ call'.op \in ReadingOps => session_results' = session_results
       /\ call.op = "get_sessions_with_external_connections" =>
              get_sessions_with_external_connections(session_results') = call.ret
       /\ call.op = "print_comprehensive_summary" =>
              /\ get_sessions_with_outbound_connections(session_results')
                     = call.sessions_with_connections
              /\ get_sessions_with_pip_installs(session_results') = call.sessions_with_pip
              /\ get_logging_status_summary(session_results') = call.logging_status
      ]_vars

\* a second analysis run added a session with a finding after the one of the
\* first run
C24_Witness ==
    /\ AnalyzeRunCall
    /\ Len(session_results) = 2
    /\ call.sessions = 1
    /\ session_results[1].session_info["livy_id"] = "livy-1"
    /\ session_results[2].session_info["livy_id"] = "livy-2"
    /\ has_external(session_results[2])

\* the words tried on a path and the type each gives, in the order tried
TriedWords ==
    <<[word |-> "livy_logs", type |-> "livy"], [word |-> "stdout", type |-> "stdout"],
      [word |-> "stderr", type |-> "stderr"]>>

\* the type of the first tried word the path contains
TypeInOrder(path) ==
    LET hits == {k \in 1..Len(TriedWords) : contains(path, TriedWords[k].word)}
    IN  IF hits = {} THEN "unknown" ELSE TriedWords[MinOf(hits)].type

\* C25: each downloaded file path is analyzed under exactly one log type:
\* livy if the path contains 'livy_logs', else stdout if it contains 'stdout',
\* else stderr if it contains 'stderr', else unknown.
C25_LogTypeInOrder ==
    AnalyzeRunCall =>
        \A i \in 1..Len(RunSummaries) :
            LET files == RunSummaries[i].downloaded_files
                filed == RunResult(i).log_analyses
            IN  /\ DOMAIN filed = {TypeInOrder(files[k]) : k \in 1..Len(files)}
                /\ \A k \in 1..Len(files) :
                       {t \in DOMAIN filed : filed[t].log_file = files[k]}
                           \subseteq {TypeInOrder(files[k])}
                /\ files # <<>> =>
                       filed[TypeInOrder(files[Len(files)])].log_file = files[Len(files)]

\* a stdout file in a directory named livy_logs was analyzed as livy, and a
\* file named after no type as unknown
C25_Witness ==
    /\ AnalyzeRunCall
    /\ Len(RunSummaries) = 1
    /\ RunSummaries[1].downloaded_files
           = <<"/mnt/livy_logs/driver_stdout.log", "/tmp/spark_logs_7_k2/driver.log">>
    /\ DOMAIN RunResult(1).log_analyses = {"livy", "unknown"}
    /\ RunResult(1).log_analyses["livy"].log_file = "/mnt/livy_logs/driver_stdout.log"

RECURSIVE FoundIn(_, _, _)
\* how many records of a kind the analyses of the first n files hold together
FoundIn(files, n, kind) ==
    IF n = 0 THEN 0
    ELSE Len(analysis_of(files[n], trusted_domains)[kind]) + FoundIn(files, n - 1, kind)

\* C26: for a session with any number of downloaded files the analysis of
\* every file is kept: the external, trusted and package-install totals the
\* views give for the session are the sums over all of its downloaded files,
\* also when two files map to the same log type.
C26_EveryFileCounted ==
    AnalyzeRunCall =>
        \A i \in 1..Len(RunSummaries) :
            LET files == RunSummaries[i].downloaded_files
            IN  /\ total_external(RunResult(i))
                       = FoundIn(files, Len(files), "external_connections")
                /\ total_trusted(RunResult(i))
                       = FoundIn(files, Len(files), "trusted_connections")
                /\ total_pip_installs(RunResult(i))
                       = FoundIn(files, Len(files), "pip_installs")

\* a non-empty string of decimal digits
IsPortNumber(port) == port # "" /\ \A k \in 1..Len(port) : At(port, k) \in CharSet(DIGITS)

\* C27: in every connection record the host is the host of the endpoint (not
\* the part of a URL before its '@') and the port is None or a string of
\* decimal digits, for every pattern of the catalog, the wasb(s):// one
\* included.
C27_HostAndPortFields ==
    AnalyzeCall =>
        \A k \in 1..Len(call.ret.connections) :
            LET info == call.ret.connections[k]
            IN  /\ info.port = None \/ IsPortNumber(info.port)
                /\ info.host # ""
                /\ ~contains(info.raw_line, "://" \o info.host \o "@")

PipelineCall == call.op = "run_complete_pipeline"

\* the phases of a kind among those entered
PhasesOf(kind) == {k \in 1..Len(call.phases) : call.phases[k].phase = kind}

\* the extraction phase gave a consolidated file path
Extracted(k) ==
    /\ call.phases[k].phase = "extraction"
    /\ call.phases[k].outcome.raised = None
    /\ call.phases[k].outcome.returned # None

\* the analysis phase ended with exit code 0
Analyzed(k) ==
    /\ call.phases[k].phase = "analysis"
    /\ call.phases[k].exists
    /\ call.phases[k].run.raised = None
    /\ call.phases[k].run.returncode = 0

\* C28: run_complete_pipeline enters the analysis phase only after the
\* extraction phase has returned a consolidated file path; after a failed
\* extraction the analysis phase is never entered; the pipeline returns True
\* only if both phases succeeded.
C28_AnalysisAfterExtraction ==
    PipelineCall =>
        /\ \A k \in PhasesOf("analysis") : k = 2 /\ Extracted(1)
        /\ (call.phases # <<>> /\ ~Extracted(1)) => PhasesOf("analysis") = {}
        /\ ("ret" \in DOMAIN call /\ call.ret) =>
               /\ Len(call.phases) = 2
               /\ Extracted(1)
               /\ Analyzed(2)

\* a pipeline whose extraction raised has returned False without an analysis
C28_Witness ==
    /\ PipelineCall
    /\ "ret" \in DOMAIN call
    /\ ~call.ret
    /\ Len(call.phases) = 1
    /\ call.phases[1].outcome.raised # None

\* C29: a make_request call sends at most two HTTP requests, the second only
\* after a 401 response to the first and a re-authentication, and it ends
\* either by returning the parsed JSON body of a 200 response or by raising an
\* error: it never returns without a result.
C29_RequestEndsWithResultOrError ==
    call.op = "make_request" =>
        /\ Len(call.sent) <= 2
        /\ Len(call.sent) = 2 =>
               /\ call.sent[1].status_code = 401
               /\ call.authenticated = 1
        /\ "pc" \notin DOMAIN call =>
               \/ call.raised # None
               \/ /\ call.ret # NO_VALUE
                  /\ call.sent # <<>>
                  /\ call.sent[Len(call.sent)].status_code = 200
                  /\ call.ret = json_of(call.sent[Len(call.sent)]).ret

\* the log_summaries of the consolidated file, none when it is not there or
\* does not parse
Entries(file) == IF file.parsed THEN file.data.log_summaries ELSE <<>>

\* C30: after any sequence of session downloads in extract_all_logs, the
\* number of sessions it counts as processed is the number of entries in
\* log_summaries of the consolidated file, which is also
\* metadata.total_sessions_processed; entries are only appended, never dropped
\* or reordered.
C30_ProcessedEqualsAppended ==
    [][(call.op = "extract_all_logs" /\ call'.op = "extract_all_logs") =>
          /\ call'.total_sessions_processed = Len(Entries(output'))
          /\ output'.parsed =>
                 output'.data.metadata.total_sessions_processed = Len(Entries(output'))
          /\ IsPrefix(Entries(output), Entries(output'))
      ]_vars

====
